---- MODULE Spec2Model ----
(***************************************************************************)
(* Odyssey print engine: the printer state machine (src/src/printer.rs),   *)
(* the motion protocol it drives (src/src/gcode.rs) and the request/reply  *)
(* primitives of the serial channel (src/src/serial_handler.rs).           *)
(*                                                                         *)
(* The state machine is one task; `pc` is its position.  The operator      *)
(* (HTTP facade) enqueues operations concurrently, the motion controller   *)
(* answers or stays silent, and time passes while the task sleeps.         *)
(*                                                                         *)
(* The serial request/reply exchange between the motion protocol and the   *)
(* device has its own variables and its own specification (SerialSpec), in *)
(* which the state machine stays as constructed.                           *)
(***************************************************************************)
EXTENDS Integers, Sequences, FiniteSets, TLC

\* ---------------------------------------------------------------- bounds
MaxLayers == 2          \* archives have 0..MaxLayers layers
MaxQueue == 2           \* operations waiting in the operation channel
MaxOps == 4             \* operations the operator sends in a bounded session
LayerHeight == 50       \* layer height of the archive, microns
Lift == 200             \* configured default_lift, microns
ManualZ == 70           \* target of the operator's manual move, microns
ExpTime == 1            \* expTime of the archive, clock ticks
ExpTimeFirst == 3       \* expTimeFirst of the archive, clock ticks
NumFade == 2            \* numFade of the archive
MaxCmds == 3            \* commands the motion protocol sends in a serial exchange
UpSpeed == 3            \* configured default_up_speed, mm/s
DownSpeed == 2          \* configured default_down_speed, mm/s
MaxGroup == 9           \* sub-pixels of a pixel format of equal widths
MaxMixed == 3           \* sub-pixels of a pixel format of any widths
MaxBuffer == 10         \* bytes of a decoded frame
MaxExposure == 10       \* expTime and expTimeFirst of a print config, seconds
MaxFade == 4            \* numFade of a print config
MaxIndex == 5           \* layer index whose exposure time is asked for
StatusDepth == 2        \* snapshots the status channel retains
MaxPublished == 5       \* snapshots the state machine publishes
WaitBefore == 1         \* configured wait_before_exposure, clock ticks
WaitAfter == 1          \* configured wait_after_exposure, clock ticks
MaxNow == 6             \* clock ticks of a timed print
MaxMsgs == 2            \* messages the protocol enqueues for the transport
IncomingDepth == 2      \* lines the incoming channel retains (200 in the code)
MaxLines == 5           \* lines the transport publishes on the incoming channel
NumFields == 2          \* fields of the configuration
MaxValue == 2           \* values of a field of the configuration: 0..MaxValue
MaxPatches == 2         \* configuration patches of one running process

\* -------------------------------------------------------- program values
ZMax == 1000000         \* f32::MAX, the z reported for the Shutdown state
None == -1              \* Option::None of a frame / of a layer index

VARIABLES
    pc,             \* position of the state-machine task
    ret,            \* where shutdown() returns to
    sdCause,        \* why shutdown() was last entered: "hw", "op" or "none"
    state,          \* Printer::state
    hw,             \* Gcode::state, the mirrored physical state
    queue,          \* operation_channel
    file,           \* layer count of the archive opened by print_event_loop
    optional_frame, \* print_event_loop: the frame to print next, or None
    next_frame,     \* print_event_loop: result of gen_next_frame
    cur_layer,      \* print_event_loop: `layer` bound by the match
    displayed,      \* frame written to the display in this layer sequence, or None
    lastPub,        \* snapshot sent on status_channel by the last task step
    out,            \* template sent to the controller by the last task step
    alive,          \* the motion controller is answering
    clock,          \* ticks elapsed since the last cure-start was issued
    cured,          \* history: <<layer, frame>> of each cure-start of the print
    mv1, mv2,       \* history: outcome of the two moves of the current layer
    hwSdCount,      \* history: shutdown templates sent for hardware errors since boot
    drainShutdown,  \* history: a Shutdown operation was dequeued in this drain
    pubInPrint,     \* history: layer of the last Printing snapshot of this print
    lastOp,         \* history: operation handled by the last task step, or "none"
    before,         \* history: Printer::state before that operation was handled
    budget,         \* operations the operator may still send (bounded session)
    archive,        \* layer count of the sliced archive the operator prints
    reliable,       \* the controller answers every move with move_sync in time
    pausedAt,       \* history: layer in print when the pending PausePrint was sent
    pausePending,   \* history: PausePrint dequeued in the print, no ResumePrint since
    manualOn,       \* history: the last cure command sent was a ManualCure(true)
    unpublished,    \* history: the state changed and was not published since
    \* --- serial exchange of the motion protocol (gcode.rs, serial_handler.rs)
    gc,             \* position of the motion protocol inside its current call
    call,           \* the call in progress: primitive, command, command id
    nSent,          \* commands put on the outgoing channel so far
    outgoing,       \* ids of the commands waiting for the device
    incoming,       \* lines from the device waiting for the motion protocol
    unanswered,     \* history: ids sent whose reply line was not yet received
    reply,          \* history: outcome of the last send_and_check / send_and_await
    \* --- template variables of the motion protocol (gcode.rs)
    gcode_substitutions,  \* Gcode::gcode_substitutions, a map from name to value
    tpc,            \* position of the print loop in its calls of the protocol
    tlayer,         \* layer index of the print loop
    sent,           \* the template the last call substituted, and how it ended
    steps,          \* history: what print_frame issued for its layer, in order
    cureZ,          \* history: mirror z at each cure-start of the print
    \* --- display re-encoder (display.rs)
    pixel_format,   \* DisplayConfig::pixel_format: bit_depth, left and right pad
    buffer,         \* Frame::buffer, one byte per source pixel
    bit_depth,      \* Frame::bit_depth, the source depth
    build,          \* "debug": overflow checks panic, "release": they wrap
    encoded,        \* what display_bytes last received and handed to write_frame
    \* --- exposure time of a layer (sl1.rs)
    print_config,   \* PrintConfig: exp_time, exp_time_first, num_fade
    frame_index,    \* the index get_layer_data was last called with
    exposure,       \* the exposure time it computed, a fraction of seconds
    \* --- subscribers of the status channel (api.rs)
    published,      \* snapshots sent on status_channel so far; the k-th is k
    cursor,         \* per subscriber: the snapshot its receiver reads next
    lagged,         \* per subscriber: its last receive reported a lag
    received,       \* the last receive of a subscriber and what it returned
    state_ref,      \* run_state_listener: the snapshot it cached last
    \* --- the timing of a layer (printer.rs, print_frame)
    fpc,            \* position of print_frame in the layer
    flayer,         \* layer index of the timed print
    now,            \* clock ticks since the timed print began
    mark,           \* history: when the events of the layer happened
    \* --- the transport loops (serial_handler.rs)
    transport,      \* "run": TTYPortHandler::run; "split": run_listener + run_writer
    cancelled,      \* the cancellation token has fired
    xpc,            \* per loop: its position
    xq,             \* messages on the outgoing channel the transport has not taken
    xenq,           \* messages the protocol has enqueued so far; the k-th is k
    xcur,           \* per loop: the message it is writing, or None
    written,        \* history: the messages written to the device, in order
    faults,         \* history: a read or a write of the port returned an error
    wstat,          \* history: the last write attempt and whether it is retried
    \* --- the protocol's receiver of the incoming channel (serial_handler.rs)
    lines,          \* lines published on the incoming channel; the k-th is k
    icursor,        \* the next line of the protocol's incoming_receiver
    ipc,            \* "idle", or where a send_and_check/send_and_await is
    lgot,           \* history: the last receive of the incoming receiver
    \* --- the configuration and its file (configuration.rs, api/config.rs)
    full_config,    \* the Arc<Configuration> the API was started with
    config_file,    \* the content of the configuration file
    patches         \* history: the patches the API received, in order

vars == <<pc, ret, sdCause, state, hw, queue, file, optional_frame, next_frame,
          cur_layer, displayed, lastPub, out, alive, clock, cured, mv1, mv2,
          hwSdCount, drainShutdown, pubInPrint, lastOp, before, budget, archive,
          reliable, pausedAt, pausePending, manualOn, unpublished,
          gc, call, nSent, outgoing, incoming, unanswered, reply,
          gcode_substitutions, tpc, tlayer, sent, steps, cureZ,
          pixel_format, buffer, bit_depth, build, encoded,
          print_config, frame_index, exposure,
          published, cursor, lagged, received, state_ref,
          fpc, flayer, now, mark,
          transport, cancelled, xpc, xq, xenq, xcur, written, faults, wstat,
          lines, icursor, ipc, lgot,
          full_config, config_file, patches>>

\* the variables of the state machine and of its environment
printer == <<pc, ret, sdCause, state, hw, queue, file, optional_frame,
             next_frame, cur_layer, displayed, lastPub, out, alive, clock,
             cured, mv1, mv2, hwSdCount, drainShutdown, pubInPrint, lastOp,
             before, budget, archive, reliable, pausedAt, pausePending,
             manualOn, unpublished>>

\* the variables of the serial exchange
serial == <<gc, call, nSent, outgoing, incoming, unanswered, reply>>

\* the variables of the template substitution
templates == <<gcode_substitutions, tpc, tlayer, sent, steps, cureZ>>

\* the state machine without the mirror of the motion protocol
machine == <<pc, ret, sdCause, state, queue, file, optional_frame,
             next_frame, cur_layer, displayed, lastPub, out, alive, clock,
             cured, mv1, mv2, hwSdCount, drainShutdown, pubInPrint, lastOp,
             before, budget, archive, reliable, pausedAt, pausePending,
             manualOn, unpublished>>

\* the variables of the display re-encoder
display == <<pixel_format, buffer, bit_depth, build, encoded>>

\* the variables of the exposure time
fade == <<print_config, frame_index, exposure>>

\* the variables of the status subscribers
status == <<published, cursor, lagged, received, state_ref>>

\* the variables of the timing of a layer
timing == <<fpc, flayer, now, mark>>

\* the variables of the transport loops
loops == <<transport, cancelled, xpc, xq, xenq, xcur, written, faults, wstat>>

\* the variables of the protocol's incoming receiver
lag == <<lines, icursor, ipc, lgot>>

\* the variables of the configuration
conf == <<full_config, config_file, patches>>

\* the components added to the model after the status subscribers
more == <<timing, loops, lag, conf>>

\* the components up to the status subscribers
old == <<printer, serial, templates, display, fade, status>>

\* the variables of the components beside the state machine
pure == <<display, fade, status, more>>

\* the variables outside the state machine
sub == <<serial, templates, pure>>

\* ------------------------------------------------------------ data model
PhysicalState(z, curing) == [z |-> z, curing |-> curing]

NoSnapshot ==
    [tag |-> "none", paused |-> FALSE, layer |-> 0, count |-> 0,
     phys |-> PhysicalState(0, FALSE)]

ShutdownState ==
    [tag |-> "Shutdown", paused |-> FALSE, layer |-> 0, count |-> 0,
     phys |-> PhysicalState(0, FALSE)]

IdleState(p) ==
    [tag |-> "Idle", paused |-> FALSE, layer |-> 0, count |-> 0, phys |-> p]

PrintingState(n, paused, layer, p) ==
    [tag |-> "Printing", paused |-> paused, layer |-> layer, count |-> n,
     phys |-> p]

Op(name, arg) == [op |-> name, arg |-> arg]

Operations ==
    {Op("StartPrint", archive)}
    \cup {Op("ManualMove", ManualZ)}
    \cup {Op("ManualCure", b) : b \in 0..1}
    \cup {Op(o, 0) : o \in {"StopPrint", "PausePrint", "ResumePrint",
                            "QueryState", "Shutdown"}}

\* PrintConfig::exposure_time, in clock ticks
exposure_time(index) ==
    IF index < NumFade
    THEN ExpTime + ((ExpTimeFirst - ExpTime) * (NumFade - index)) \div NumFade
    ELSE ExpTime

\* Sl1::get_layer_data followed by Frame::from_layer: the frame of layer
\* `index` of an archive of n layers, or None
get_layer_data(n, index) == IF index < n THEN index ELSE None

get_physical_state(s) ==
    IF s.tag = "Shutdown" THEN PhysicalState(ZMax, FALSE) ELSE s.phys

enter_printing_state(s, n) ==
    IF s.tag = "Idle" THEN PrintingState(n, FALSE, 0, s.phys) ELSE s

update_physical_state(s, p) ==
    IF s.tag = "Shutdown" THEN s ELSE [s EXCEPT !.phys = p]

update_paused_rebuild(s, new_pause) ==
    IF s.tag = "Printing"
    THEN PrintingState(s.count, new_pause, 0, s.phys) ELSE s

update_paused_toggle(s, new_pause) ==
    IF s.tag = "Printing" THEN [s EXCEPT !.paused = ~s.paused] ELSE s

update_paused_ignored(s, new_pause) == s

update_paused(s, new_pause) ==
    IF s.tag = "Printing" THEN [s EXCEPT !.paused = new_pause] ELSE s

update_layer_stuck(s, new_layer) == s

update_layer_skip(s, new_layer) ==
    IF s.tag = "Printing" THEN [s EXCEPT !.layer = new_layer + 1] ELSE s

update_layer(s, new_layer) ==
    IF s.tag = "Printing" THEN [s EXCEPT !.layer = new_layer] ELSE s

\* the `_ => ()` arm of printing_operation_handler
ignored_restart(s, o) ==
    IF o.op = "StartPrint" /\ s.tag = "Printing"
    THEN PrintingState(o.arg, FALSE, 0, s.phys) ELSE s

ignored(s, o) == s

set_idle_home(s) == IdleState(PhysicalState(0, FALSE))

set_idle(s) == IdleState(get_physical_state(s))

update_idle_state_home(p) == IdleState(PhysicalState(0, FALSE))

update_idle_state(p) == IdleState(p)

\* Gcode::set_position / Gcode::set_curing on the mirror
set_position_stale(h, z) == h
set_position(h, z) == [h EXCEPT !.z = z]
set_curing_on(h, c) == [h EXCEPT !.curing = TRUE]
set_curing(h, c) == [h EXCEPT !.curing = c]

\* ------------------------------------------------------------- publishing
\* Printer::send_status: the snapshot s goes on the status channel
send_status(s) ==
    /\ lastPub' = s
    /\ pubInPrint' = IF s.tag = "Printing" THEN s.layer ELSE pubInPrint

\* a task step that publishes nothing
NoStatus == lastPub' = NoSnapshot /\ UNCHANGED pubInPrint

\* ------------------------------------------------------------------ Init
\* PixelFormat of the configuration
PixelFormat(W, left, right) ==
    [bit_depth |-> W, left_pad_bits |-> left, right_pad_bits |-> right]

\* nothing was displayed yet
NoEncoded ==
    [src |-> <<>>, depth |-> 0, ok |-> TRUE, bytes |-> <<>>, path |-> "none"]

\* PrintDisplay::new with an 8-bit grey panel, no frame decoded
InitDisplay ==
    /\ pixel_format = PixelFormat(<<8>>, 0, 0)
    /\ buffer = <<>>
    /\ bit_depth = 8
    /\ build = "release"
    /\ encoded = NoEncoded

\* a fraction n / d
Rational(n, d) == [n |-> n, d |-> d]

\* no exposure time was computed yet
NoExposure == Rational(0, 0)

\* no archive is open
InitFade ==
    /\ print_config = [exp_time |-> 0, exp_time_first |-> 0, num_fade |-> 0]
    /\ frame_index = 0
    /\ exposure = NoExposure

\* the subscribers of the status channel: run_state_listener and one
\* status stream
Subscribers == {"listener", "stream"}

NoReceive ==
    [by |-> "none", result |-> "none", value |-> None, afterLag |-> FALSE,
     latest |-> 0]

\* broadcast::channel and the receivers of start_api: nothing was published
InitStatus ==
    /\ published = 0
    /\ cursor = [r \in Subscribers |-> 1]
    /\ lagged = [r \in Subscribers |-> FALSE]
    /\ received = NoReceive
    /\ state_ref = None

\* no event of a layer has happened
NoMark ==
    [layer_start |-> None, moved |-> None, displayed |-> None,
     cure_start |-> None, cure_end |-> None]

\* no print is being timed
InitTiming ==
    /\ fpc = "idle"
    /\ flayer = 0
    /\ now = 0
    /\ mark = NoMark

\* the loops of the transport
Loops == {"run", "listener", "writer"}

\* the loops the process has spawned: the combined loop, or the two others
Spawned(t) == IF t = "run" THEN {"run"} ELSE {"listener", "writer"}

NoWrite == [by |-> "none", outcome |-> "none", again |-> FALSE]

\* the transport as spawned with handler t; nothing was enqueued
InitLoops(t) ==
    /\ transport = t
    /\ cancelled = FALSE
    /\ xpc = [l \in Loops |-> IF l \in Spawned(t) THEN "top" ELSE "off"]
    /\ xq = <<>>
    /\ xenq = 0
    /\ xcur = [l \in Loops |-> None]
    /\ written = <<>>
    /\ faults = FALSE
    /\ wstat = NoWrite

NoLine ==
    [prim |-> "none", behind |-> FALSE, result |-> "none", line |-> None,
     call |-> "none"]

\* InternalCommsHandler::new: no line was published, no call is pending
InitLag ==
    /\ lines = 0
    /\ icursor = 1
    /\ ipc = "idle"
    /\ lgot = NoLine

\* the fields of Configuration and the values a field can have
Fields == 1..NumFields

Values == 0..MaxValue

\* Configuration::from_file: the process holds what the file contained
InitConf(c) ==
    /\ full_config = c
    /\ config_file = c
    /\ patches = <<>>

\* the components added after the status subscribers, as constructed
InitMore ==
    /\ InitTiming
    /\ InitLoops("run")
    /\ InitLag
    /\ InitConf([f \in Fields |-> 0])

\* no call in progress, both channels empty (InternalCommsHandler::new)
NoCall == [prim |-> "none", cmd |-> "none", id |-> 0]
NoReply == [for |-> 0, by |-> 0, ok |-> FALSE]

\* Gcode::new: the substitution map is empty, nothing was sent
EmptyMap == [x \in {} |-> None]

\* what an operation of the motion protocol returned: Ok(PhysicalState) with
\* the state, Ok(bool), Ok(()), an error, or nothing yet
Returned(kind, states) == [kind |-> kind, state |-> states]

NoTemplate == [step |-> "none", tokens |-> {}, map |-> EmptyMap, layer |-> None,
               speed |-> None, result |-> "none", z |-> None,
               returned |-> Returned("none", {})]

InitTemplates ==
    /\ gcode_substitutions = EmptyMap
    /\ tpc = "idle"
    /\ tlayer = 0
    /\ sent = NoTemplate
    /\ steps = <<>>
    /\ cureZ = <<>>

InitSerial ==
    /\ gc = "idle"
    /\ call = NoCall
    /\ nSent = 0
    /\ outgoing = <<>>
    /\ incoming = <<>>
    /\ unanswered = {}
    /\ reply = NoReply

\* the components up to the status subscribers, as constructed
InitOld ==
    /\ InitSerial
    /\ InitTemplates
    /\ InitDisplay
    /\ InitFade
    /\ InitStatus

InitPrinter ==
    /\ pc = "dispatch"
    /\ ret = "dispatch"
    /\ sdCause = "none"
    /\ state = ShutdownState
    /\ hw = PhysicalState(0, FALSE)
    /\ queue = <<>>
    /\ file = 0
    /\ optional_frame = None
    /\ next_frame = None
    /\ cur_layer = 0
    /\ displayed = None
    /\ lastPub = NoSnapshot
    /\ out = "none"
    /\ alive = TRUE
    /\ clock = 0
    /\ cured = <<>>
    /\ mv1 = "none"
    /\ mv2 = "none"
    /\ hwSdCount = 0
    /\ drainShutdown = FALSE
    /\ pubInPrint = None
    /\ lastOp = "none"
    /\ before = NoSnapshot
    /\ budget = MaxOps
    /\ archive \in 0..MaxLayers
    /\ reliable = FALSE
    /\ pausedAt = None
    /\ pausePending = FALSE
    /\ manualOn = FALSE
    /\ unpublished = FALSE

Init ==
    /\ InitPrinter
    /\ InitSerial
    /\ InitTemplates
    /\ InitDisplay
    /\ InitFade
    /\ InitStatus
    /\ InitMore

\* ------------------------------------------------------------ frame sets
locals == <<file, optional_frame, next_frame, cur_layer>>
layerHist == <<cured, mv1, mv2>>
env == <<queue, alive, budget, archive, reliable, pausedAt, pausePending,
         manualOn>>

\* every task step: publishing the state it leaves clears `unpublished`, a
\* change of the state it does not publish sets it
Track ==
    unpublished' = IF lastPub' = state' THEN FALSE
                   ELSE (unpublished \/ state' # state)

\* a task step that handles no operation
NoOp == lastOp' = "none" /\ before' = NoSnapshot

\* enter Printer::shutdown, to continue at r when it returns
CallShutdown(cause, r) ==
    /\ pc' = "sd_ready"
    /\ ret' = r
    /\ sdCause' = cause

\* Printer::shutdown returns to its caller
Return ==
    /\ pc' = ret
    /\ ret' = "dispatch"
    /\ sdCause' = "none"

\* outcome of Gcode::move_z: send_and_await ends with Ok when a line holding
\* move_sync arrives before move_timeout, with Err when the timeout elapses.
\* The other templates go out through send_gcode, fire-and-forget:
\* InternalCommsHandler::send fails only when the outgoing channel has no
\* receiver, and the handler holds one itself, so those calls return Ok and
\* the `else shutdown()` branch of their wrappers is never taken.
MoveOutcomes ==
    IF ~alive THEN {"timeout"}
    ELSE IF reliable THEN {"sync"}
    ELSE {"sync", "timeout"}

\* --------------------------------------------------- start_statemachine
\* Printer::start_statemachine: pick the event loop of the current state
Dispatch ==
    /\ pc = "dispatch"
    /\ pc' = CASE state.tag = "Idle" -> "idle_ops"
              [] state.tag = "Printing" -> "print_init"
              [] OTHER -> "sh_ops"
    /\ out' = "none"
    /\ NoOp
    /\ NoStatus
    /\ UNCHANGED <<ret, sdCause, state, hw, locals, displayed, clock,
                   layerHist, hwSdCount, drainShutdown, env>>
    /\ Track
    /\ UNCHANGED sub

\* ------------------------------------------------------- Printer::shutdown
\* shutdown(): is_ready() sends the status-check template ...
SdReady ==
    /\ pc = "sd_ready"
    /\ pc' = "sd_wait"
    /\ out' = "status_check"
    /\ NoOp
    /\ NoStatus
    /\ UNCHANGED <<ret, sdCause, state, hw, locals, displayed, clock,
                   layerHist, hwSdCount, drainShutdown, env>>
    /\ Track
    /\ UNCHANGED sub

\* ... and waits, without a timeout, for the next incoming line
\* (send_and_check -> check_response -> receive); not ready: state = Shutdown
SdWait ==
    /\ pc = "sd_wait"
    /\ alive
    /\ \E ready \in BOOLEAN :
          IF ready
          THEN /\ pc' = "sd_send"
               /\ UNCHANGED <<ret, sdCause, state>>
          ELSE /\ Return
               /\ state' = ShutdownState
    /\ out' = "none"
    /\ NoOp
    /\ NoStatus
    /\ UNCHANGED <<hw, locals, displayed, clock,
                   layerHist, hwSdCount, drainShutdown, env>>
    /\ Track
    /\ UNCHANGED sub

\* ready: the shutdown template is sent, then state = Shutdown
SdSend ==
    /\ pc = "sd_send"
    /\ Return
    /\ out' = "shutdown"
    /\ state' = ShutdownState
    /\ hwSdCount' = IF sdCause = "hw" /\ hwSdCount < 2
                    THEN hwSdCount + 1 ELSE hwSdCount
    /\ NoOp
    /\ NoStatus
    /\ UNCHANGED <<hw, locals, displayed, clock,
                   layerHist, drainShutdown, env>>
    /\ Track
    /\ UNCHANGED sub

\* the `if let Operation::QueryState` of shutdown_operation_handler
answered_in_shutdown_all(o) == TRUE

answered_in_shutdown(o) == o.op = "QueryState"

\* --------------------------------------------------- shutdown_event_loop
\* Printer::shutdown_operation_handler, one try_recv per step: every
\* operation is dropped, QueryState publishes the state
ShOps ==
    /\ pc = "sh_ops"
    /\ IF queue = <<>>
       THEN /\ pc' = "sh_check"
            /\ NoOp
            /\ NoStatus
            /\ UNCHANGED queue
       ELSE /\ pc' = "sh_ops"
            /\ queue' = Tail(queue)
            /\ lastOp' = Head(queue).op
            /\ before' = state
            /\ IF answered_in_shutdown(Head(queue))
               THEN send_status(state)
               ELSE NoStatus
    /\ out' = "none"
    /\ UNCHANGED <<ret, sdCause, state, hw, locals, displayed, clock,
                   layerHist, hwSdCount, drainShutdown, alive, budget, archive,
                   reliable, pausedAt, pausePending, manualOn>>
    /\ Track
    /\ UNCHANGED sub

\* shutdown_event_loop: still Shutdown -> is_ready() sends the status check
ShCheck ==
    /\ pc = "sh_check"
    /\ IF state.tag = "Shutdown"
       THEN pc' = "sh_wait" /\ out' = "status_check"
       ELSE pc' = "dispatch" /\ out' = "none"
    /\ drainShutdown' = FALSE
    /\ NoOp
    /\ NoStatus
    /\ UNCHANGED <<ret, sdCause, state, hw, locals, displayed, clock,
                   layerHist, hwSdCount, env>>
    /\ Track
    /\ UNCHANGED sub

\* is_ready() returns on the next incoming line; not ready: wait one tick
ShWait ==
    /\ pc = "sh_wait"
    /\ alive
    /\ \E ready \in BOOLEAN : pc' = IF ready THEN "sh_boot" ELSE "sh_ops"
    /\ out' = "none"
    /\ NoOp
    /\ NoStatus
    /\ UNCHANGED <<ret, sdCause, state, hw, locals, displayed, clock,
                   layerHist, hwSdCount, drainShutdown, env>>
    /\ Track
    /\ UNCHANGED sub

\* Printer::boot: the boot template is sent, the state becomes Idle with the
\* mirror (Gcode::boot sends fire-and-forget, so it returns Ok)
ShBoot ==
    /\ pc = "sh_boot"
    /\ pc' = "sh_ops"
    /\ out' = "boot"
    /\ state' = update_idle_state(hw)
    /\ send_status(state')
    /\ hwSdCount' = 0
    /\ NoOp
    /\ UNCHANGED <<ret, sdCause, hw, locals, displayed, clock,
                   layerHist, drainShutdown, env>>
    /\ Track
    /\ UNCHANGED sub

\* ------------------------------------------------------- idle_event_loop
\* Printer::idle_operation_handler, one try_recv per step
IdleOps ==
    /\ pc = "idle_ops"
    /\ IF queue = <<>>
       THEN /\ pc' = "idle_check"
            /\ out' = "none"
            /\ NoOp
            /\ NoStatus
            /\ UNCHANGED <<ret, sdCause, state, hw, queue, cured,
                           drainShutdown>>
       ELSE LET o == Head(queue) IN
            /\ queue' = Tail(queue)
            /\ lastOp' = o.op
            /\ before' = state
            /\ CASE o.op = "QueryState" ->
                     /\ send_status(state)
                     /\ out' = "none"
                     /\ UNCHANGED <<pc, ret, sdCause, state, hw, cured,
                                    drainShutdown>>
                 [] o.op = "StartPrint" ->
                     \* Printer::start_print -> enter_printing_state
                     /\ state' = enter_printing_state(state, o.arg)
                     /\ cured' = IF state.tag = "Idle" THEN <<>> ELSE cured
                     /\ pubInPrint' = IF state.tag = "Idle" THEN None
                                                          ELSE pubInPrint
                     /\ out' = "none"
                     /\ lastPub' = NoSnapshot
                     /\ UNCHANGED <<pc, ret, sdCause, hw, drainShutdown>>
                 [] o.op = "ManualMove" ->
                     \* wrapped_move(z, default_up_speed)
                     /\ hw' = set_position(hw, o.arg)
                     /\ out' = "move"
                     /\ \E r \in MoveOutcomes :
                          IF r = "sync"
                          THEN /\ state' = update_physical_state(state, hw')
                               /\ send_status(state')
                               /\ UNCHANGED <<pc, ret, sdCause>>
                          ELSE /\ CallShutdown("hw", "idle_ops")
                               /\ NoStatus
                               /\ UNCHANGED state
                     /\ UNCHANGED <<cured, drainShutdown>>
                 [] o.op = "ManualCure" ->
                     \* wrapped_start_cure / wrapped_stop_cure
                     /\ hw' = set_curing(hw, o.arg = 1)
                     /\ out' = IF o.arg = 1 THEN "cure_start" ELSE "cure_end"
                     /\ state' = update_physical_state(state, hw')
                     /\ send_status(state')
                     /\ UNCHANGED <<pc, ret, sdCause, cured, drainShutdown>>
                 [] o.op = "Shutdown" ->
                     /\ CallShutdown("op", "idle_ops")
                     /\ drainShutdown' = TRUE
                     /\ out' = "none"
                     /\ NoStatus
                     /\ UNCHANGED <<state, hw, cured>>
                 [] OTHER ->
                     /\ out' = "none"
                     /\ NoStatus
                     /\ UNCHANGED <<pc, ret, sdCause, state, hw, cured,
                                    drainShutdown>>
    /\ manualOn' = IF queue # <<>> /\ Head(queue).op = "ManualCure"
                    THEN Head(queue).arg = 1 ELSE manualOn
    /\ UNCHANGED <<locals, displayed, clock, mv1, mv2, hwSdCount, alive,
                   budget, archive, reliable, pausedAt, pausePending>>
    /\ Track
    /\ UNCHANGED sub

\* idle_event_loop: still Idle -> wait one tick, else back to the dispatcher
IdleCheck ==
    /\ pc = "idle_check"
    /\ pc' = IF state.tag = "Idle" THEN "idle_ops" ELSE "dispatch"
    /\ drainShutdown' = FALSE
    /\ out' = "none"
    /\ NoOp
    /\ NoStatus
    /\ UNCHANGED <<ret, sdCause, state, hw, locals, displayed, clock,
                   layerHist, hwSdCount, env>>
    /\ Track
    /\ UNCHANGED sub

\* ------------------------------------------------------ print_event_loop
\* Z target of a layer, as print_frame computes it
layer_z_flat(layer) == LayerHeight

layer_z(layer) == (layer + 1) * LayerHeight

sleep_not_awaited(elapsed, t) == TRUE

\* `sleep(exposure_time).await` has returned once t ticks have elapsed
sleep_done(elapsed, t) == elapsed >= t

paused_branch_never(s) == FALSE

\* the `if paused` of print_event_loop
paused_branch(s) == s.paused

\* print_event_loop up to its loop: the archive is opened, the print-start
\* template is sent (wrapped_start_print), the first frame is generated
PrintInit ==
    /\ pc = "print_init"
    /\ pc' = "print_ops"
    /\ file' = state.count
    /\ out' = "print_start"
    /\ state' = update_physical_state(state, hw)
    /\ send_status(state')
    /\ optional_frame' = get_layer_data(file', 0)
    /\ NoOp
    /\ UNCHANGED <<ret, sdCause, hw, next_frame, cur_layer, displayed, clock,
                   layerHist, hwSdCount, drainShutdown, env>>
    /\ Track
    /\ UNCHANGED sub

\* Printer::printing_operation_handler, one try_recv per step
PrintOps ==
    /\ pc = "print_ops"
    /\ IF queue = <<>>
       THEN /\ pc' = "print_check"
            /\ NoOp
            /\ NoStatus
            /\ UNCHANGED <<ret, sdCause, state, queue, drainShutdown>>
       ELSE LET o == Head(queue) IN
            /\ queue' = Tail(queue)
            /\ lastOp' = o.op
            /\ before' = state
            /\ CASE o.op = "PausePrint" ->
                     /\ state' = update_paused(state, TRUE)
                     /\ send_status(state')
                     /\ UNCHANGED <<pc, ret, sdCause, drainShutdown>>
                 [] o.op = "ResumePrint" ->
                     /\ state' = update_paused(state, FALSE)
                     /\ send_status(state')
                     /\ UNCHANGED <<pc, ret, sdCause, drainShutdown>>
                 [] o.op = "StopPrint" ->
                     /\ state' = set_idle(state)
                     /\ send_status(state')
                     /\ UNCHANGED <<pc, ret, sdCause, drainShutdown>>
                 [] o.op = "QueryState" ->
                     /\ send_status(state)
                     /\ UNCHANGED <<pc, ret, sdCause, state, drainShutdown>>
                 [] o.op = "Shutdown" ->
                     /\ CallShutdown("op", "print_ops")
                     /\ drainShutdown' = TRUE
                     /\ NoStatus
                     /\ UNCHANGED state
                 [] OTHER ->
                     /\ state' = ignored(state, o)
                     /\ NoStatus
                     /\ UNCHANGED <<pc, ret, sdCause, drainShutdown>>
    /\ out' = "none"
    /\ pausedAt' = IF queue # <<>> /\ Head(queue).op = "ResumePrint"
                       /\ state.tag = "Printing" /\ state.paused
                    THEN None ELSE pausedAt
    /\ pausePending' =
          IF queue = <<>> \/ state.tag # "Printing" THEN pausePending
          ELSE IF Head(queue).op = "PausePrint" THEN TRUE
          ELSE IF Head(queue).op = "ResumePrint" THEN FALSE
          ELSE pausePending
    /\ UNCHANGED <<hw, locals, displayed, clock, layerHist, hwSdCount,
                   alive, budget, archive, reliable, manualOn>>
    /\ Track
    /\ UNCHANGED sub

\* the match of print_event_loop after the handler
PrintCheck ==
    /\ pc = "print_check"
    /\ drainShutdown' = FALSE
    /\ NoOp
    /\ IF state.tag # "Printing"
       THEN \* break: print_event_loop returns and its locals are dropped
            /\ pc' = "dispatch"
            /\ out' = "none"
            /\ pubInPrint' = None
            /\ lastPub' = NoSnapshot
            /\ file' = 0
            /\ optional_frame' = None
            /\ next_frame' = None
            /\ cur_layer' = 0
            /\ mv1' = "none"
            /\ mv2' = "none"
            /\ cured' = <<>>
            /\ displayed' = None
            /\ UNCHANGED state
       ELSE IF paused_branch(state)
       THEN \* pause_interv.tick(); continue
            /\ pc' = "print_ops"
            /\ out' = "none"
            /\ NoStatus
            /\ UNCHANGED <<state, locals, layerHist, displayed>>
       ELSE IF optional_frame # None
       THEN \* Some(cur_frame): spawn gen_next_frame, enter print_frame
            /\ pc' = "pf_start_layer"
            /\ cur_layer' = state.layer
            /\ next_frame' = get_layer_data(file, state.layer + 1)
            /\ mv1' = "none"
            /\ mv2' = "none"
            /\ out' = "none"
            /\ NoStatus
            /\ UNCHANGED <<state, file, optional_frame, cured, displayed>>
       ELSE \* None: Printer::end_print
            /\ pc' = "print_ops"
            /\ out' = "print_end"
            /\ state' = update_idle_state(hw)
            /\ send_status(state')
            /\ UNCHANGED <<locals, layerHist, displayed>>
    /\ pausePending' = IF state.tag # "Printing" THEN FALSE ELSE pausePending
    /\ UNCHANGED <<ret, sdCause, hw, clock, hwSdCount, queue, alive, budget,
                   archive, reliable, pausedAt, manualOn>>
    /\ Track
    /\ UNCHANGED sub

\* print_frame: wrapped_start_layer
PfStartLayer ==
    /\ pc = "pf_start_layer"
    /\ pc' = "pf_move1"
    /\ out' = "layer_start"
    /\ state' = update_physical_state(state, hw)
    /\ send_status(state')
    /\ NoOp
    /\ UNCHANGED <<ret, sdCause, hw, locals, displayed, clock, layerHist,
                   hwSdCount, drainShutdown, env>>
    /\ Track
    /\ UNCHANGED sub

\* wrapped_move inside print_frame: Gcode::move_z sets the mirror, sends the
\* move template and awaits move_sync; Err -> shutdown(), and print_frame
\* goes on with its next statement when shutdown() returns
WrappedMove(z, next) ==
    /\ hw' = set_position(hw, z)
    /\ out' = "move"
    /\ \E r \in MoveOutcomes :
          /\ IF pc = "pf_move1"
             THEN mv1' = r /\ UNCHANGED mv2
             ELSE mv2' = r /\ UNCHANGED mv1
          /\ IF r = "sync"
             THEN /\ state' = update_physical_state(state, hw')
                  /\ send_status(state')
                  /\ pc' = next
                  /\ UNCHANGED <<ret, sdCause>>
             ELSE /\ CallShutdown("hw", next)
                  /\ NoStatus
                  /\ UNCHANGED state
    /\ NoOp
    /\ UNCHANGED <<locals, displayed, clock, cured, hwSdCount,
                   drainShutdown, env>>
    /\ Track
    /\ UNCHANGED sub

\* print_frame: move up by the lift
PfMove1 ==
    /\ pc = "pf_move1"
    /\ WrappedMove(layer_z(cur_layer) + Lift, "pf_move2")

\* print_frame: move down into position
PfMove2 ==
    /\ pc = "pf_move2"
    /\ WrappedMove(layer_z(cur_layer), "pf_display")

\* print_frame: display_frame(cur_frame); the sleep(wait_before_exposure)
\* before it is created but not awaited, so no time passes there
PfDisplay ==
    /\ pc = "pf_display"
    /\ pc' = "pf_start_cure"
    /\ displayed' = optional_frame
    /\ out' = "none"
    /\ NoOp
    /\ NoStatus
    /\ UNCHANGED <<ret, sdCause, state, hw, locals, clock, layerHist,
                   hwSdCount, drainShutdown, env>>
    /\ Track
    /\ UNCHANGED sub

\* print_frame: wrapped_start_cure
PfStartCure ==
    /\ pc = "pf_start_cure"
    /\ pc' = "pf_expose"
    /\ hw' = set_curing(hw, TRUE)
    /\ out' = "cure_start"
    /\ state' = update_physical_state(state, hw')
    /\ send_status(state')
    /\ clock' = 0
    /\ cured' = Append(cured, [layer |-> cur_layer, frame |-> displayed])
    /\ NoOp
    /\ manualOn' = FALSE
    /\ UNCHANGED <<ret, sdCause, locals, displayed, mv1, mv2, hwSdCount,
                   drainShutdown, queue, alive, budget, archive, reliable,
                   pausedAt, pausePending>>
    /\ Track
    /\ UNCHANGED sub

\* print_frame: sleep(exposure_time).await
PfExpose ==
    /\ pc = "pf_expose"
    /\ sleep_done(clock, exposure_time(optional_frame))
    /\ pc' = "pf_stop_cure"
    /\ out' = "none"
    /\ NoOp
    /\ NoStatus
    /\ UNCHANGED <<ret, sdCause, state, hw, locals, displayed, clock,
                   layerHist, hwSdCount, drainShutdown, env>>
    /\ Track
    /\ UNCHANGED sub

\* print_frame: wrapped_stop_cure
PfStopCure ==
    /\ pc = "pf_stop_cure"
    /\ pc' = "pf_next"
    /\ hw' = set_curing(hw, FALSE)
    /\ out' = "cure_end"
    /\ state' = update_physical_state(state, hw')
    /\ send_status(state')
    /\ NoOp
    /\ manualOn' = FALSE
    /\ UNCHANGED <<ret, sdCause, locals, displayed, clock, layerHist,
                   hwSdCount, drainShutdown, queue, alive, budget, archive,
                   reliable, pausedAt, pausePending>>
    /\ Track
    /\ UNCHANGED sub

\* print_event_loop: await gen_next_frame, then set_layer(layer + 1)
PfNext ==
    /\ pc = "pf_next"
    /\ pc' = "print_ops"
    /\ optional_frame' = next_frame
    /\ state' = update_layer(state, cur_layer + 1)
    /\ send_status(state')
    /\ out' = "none"
    /\ NoOp
    /\ clock' = 0
    /\ mv1' = "none"
    /\ mv2' = "none"
    /\ displayed' = None
    /\ UNCHANGED <<ret, sdCause, hw, file, next_frame, cur_layer,
                   cured, hwSdCount, drainShutdown, env>>
    /\ Track
    /\ UNCHANGED sub

\* ------------------------------------------------------------ environment
\* the facade sends an operation on the operation channel
Enqueue ==
    /\ Len(queue) < MaxQueue
    /\ \E o \in Operations : queue' = Append(queue, o)
    /\ UNCHANGED <<pc, ret, sdCause, state, hw, locals, displayed, lastPub,
                   out, alive, clock, layerHist, hwSdCount, drainShutdown,
                   pubInPrint, lastOp, before, budget, archive,
                   reliable, pausedAt, pausePending, manualOn,
                   unpublished>>
    /\ UNCHANGED sub

\* the motion controller stops answering (and stays silent)
HwDie ==
    /\ alive
    /\ alive' = FALSE
    /\ UNCHANGED <<pc, ret, sdCause, state, hw, locals, displayed, lastPub,
                   out, queue, clock, layerHist, hwSdCount, drainShutdown,
                   pubInPrint, lastOp, before, budget, archive,
                   reliable, pausedAt, pausePending, manualOn,
                   unpublished>>
    /\ UNCHANGED sub

\* time passes while the task sleeps through the exposure
Tick ==
    /\ pc = "pf_expose"
    /\ clock < exposure_time(optional_frame)
    /\ clock' = clock + 1
    /\ UNCHANGED <<pc, ret, sdCause, state, hw, locals, displayed, lastPub,
                   out, queue, alive, layerHist, hwSdCount, drainShutdown,
                   pubInPrint, lastOp, before, budget, archive,
                   reliable, pausedAt, pausePending, manualOn,
                   unpublished>>
    /\ UNCHANGED sub

\* the layer whose sequence print_frame is running, if any
PrintingLayer ==
    IF state.tag = "Printing"
       /\ pc \in {"pf_start_layer", "pf_move1", "pf_move2", "pf_display",
                  "pf_start_cure", "pf_expose", "pf_stop_cure", "pf_next"}
    THEN cur_layer ELSE None

\* the facade sends one of the operations of a print session, in a session
\* of at most MaxOps operations
EnqueueSession ==
    /\ budget > 0
    /\ Len(queue) < MaxQueue
    /\ \E o \in {Op("StartPrint", archive), Op("PausePrint", 0),
                  Op("ResumePrint", 0), Op("QueryState", 0)} :
          /\ queue' = Append(queue, o)
          /\ pausedAt' = IF o.op = "PausePrint" /\ PrintingLayer # None
                          THEN PrintingLayer ELSE pausedAt
    /\ budget' = budget - 1
    /\ UNCHANGED <<pc, ret, sdCause, state, hw, locals, displayed, lastPub,
                   out, alive, clock, layerHist, hwSdCount, drainShutdown,
                   pubInPrint, lastOp, before, archive, reliable,
                   pausePending, manualOn,
                   unpublished>>
    /\ UNCHANGED sub

\* ---------------------------------------------------------- specification
LoopNext ==
    \/ Dispatch
    \/ ShOps \/ ShCheck \/ ShWait \/ ShBoot
    \/ IdleOps \/ IdleCheck
    \/ PrintInit \/ PrintOps \/ PrintCheck
    \/ PfStartLayer \/ PfMove1 \/ PfMove2 \/ PfDisplay \/ PfStartCure
    \/ PfExpose \/ PfStopCure \/ PfNext

TaskNext == LoopNext \/ SdReady \/ SdWait \/ SdSend

Next == TaskNext \/ Enqueue \/ HwDie \/ Tick

Spec == Init /\ [][Next]_vars

\* the task is always scheduled again and time passes
FairSpec == Spec /\ WF_vars(TaskNext) /\ WF_vars(Tick)

\* a print session on a controller that answers every move with move_sync:
\* the operator only starts, pauses, resumes and queries
InitSession ==
    /\ pc = "dispatch"
    /\ ret = "dispatch"
    /\ sdCause = "none"
    /\ state = ShutdownState
    /\ hw = PhysicalState(0, FALSE)
    /\ queue = <<>>
    /\ file = 0
    /\ optional_frame = None
    /\ next_frame = None
    /\ cur_layer = 0
    /\ displayed = None
    /\ lastPub = NoSnapshot
    /\ out = "none"
    /\ alive = TRUE
    /\ clock = 0
    /\ cured = <<>>
    /\ mv1 = "none"
    /\ mv2 = "none"
    /\ hwSdCount = 0
    /\ drainShutdown = FALSE
    /\ pubInPrint = None
    /\ lastOp = "none"
    /\ before = NoSnapshot
    /\ budget = MaxOps
    /\ archive \in 0..MaxLayers
    /\ reliable = TRUE
    /\ pausedAt = None
    /\ pausePending = FALSE
    /\ manualOn = FALSE
    /\ unpublished = FALSE
    /\ InitSerial
    /\ InitTemplates
    /\ InitDisplay
    /\ InitFade
    /\ InitStatus
    /\ InitMore

SessionNext == LoopNext \/ EnqueueSession \/ Tick

SessionSpec ==
    InitSession /\ [][SessionNext]_vars /\ WF_vars(LoopNext) /\ WF_vars(Tick)

\* ------------------------------------------------- the serial exchange
\* the commands of the motion protocol, by the primitive gcode.rs sends them
\* with: is_ready -> send_and_check, move_z -> send_and_await, start_layer
\* and start_curing -> send_gcode (fire and forget)
Commands == {"status_check", "move", "layer_start", "cure_start"}

primitive(cmd) ==
    CASE cmd = "status_check" -> "check"
      [] cmd = "move" -> "await"
      [] OTHER -> "send"

\* the substring the call looks for: status_desired / move_sync
expected(cmd) == IF cmd = "status_check" THEN "status_desired" ELSE "move_sync"

\* the device of the repository's tests: it answers every command with one
\* line, status_desired to the status check and move_sync to anything else
response(cmd) == IF cmd = "status_check" THEN "status_desired" ELSE "move_sync"

\* a method of the motion protocol is called: send_gcode goes straight to
\* send, the other two primitives flush the incoming channel first
Call ==
    /\ gc = "idle"
    /\ nSent < MaxCmds
    /\ \E cmd \in Commands :
          /\ call' = [prim |-> primitive(cmd), cmd |-> cmd, id |-> nSent + 1]
          /\ gc' = IF primitive(cmd) = "send" THEN "send" ELSE "flush"
    /\ UNCHANGED <<nSent, outgoing, incoming, unanswered, reply, printer, templates, pure>>

\* InternalCommsHandler::flush_input: receive while the channel is not empty
FlushInput ==
    /\ gc = "flush"
    /\ IF incoming = <<>>
       THEN /\ gc' = "send"
            /\ UNCHANGED <<incoming, unanswered>>
       ELSE /\ incoming' = Tail(incoming)
            /\ unanswered' = unanswered \ {Head(incoming).re}
            /\ UNCHANGED gc
    /\ UNCHANGED <<call, nSent, outgoing, reply, printer, templates, pure>>

\* InternalCommsHandler::send: the command goes on the outgoing channel
Send ==
    /\ gc = "send"
    /\ outgoing' = Append(outgoing, [id |-> call.id, cmd |-> call.cmd])
    /\ nSent' = nSent + 1
    /\ unanswered' = unanswered \cup {call.id}
    /\ IF call.prim = "send"
       THEN gc' = "idle" /\ call' = NoCall
       ELSE gc' = "wait" /\ UNCHANGED call
    /\ UNCHANGED <<incoming, reply, printer, templates, pure>>

\* check_response: the next incoming line is received and compared; for
\* send_and_check that line decides, _await_response goes on to the next
\* line until one contains the expected substring
Receive ==
    /\ gc = "wait"
    /\ incoming # <<>>
    /\ LET line == Head(incoming)
           hit == line.text = expected(call.cmd) IN
       /\ incoming' = Tail(incoming)
       /\ unanswered' = unanswered \ {line.re}
       /\ IF call.prim = "check" \/ hit
          THEN /\ reply' = [for |-> call.id, by |-> line.re, ok |-> hit]
               /\ gc' = "idle"
               /\ call' = NoCall
          ELSE UNCHANGED <<reply, gc, call>>
    /\ UNCHANGED <<nSent, outgoing, printer, templates, pure>>

\* await_response: the timeout elapses first, the call fails with
\* HardwareError
Timeout ==
    /\ gc = "wait"
    /\ call.prim = "await"
    /\ reply' = [for |-> call.id, by |-> 0, ok |-> FALSE]
    /\ gc' = "idle"
    /\ call' = NoCall
    /\ UNCHANGED <<nSent, outgoing, incoming, unanswered, printer, templates, pure>>

\* the device takes the next command and emits its reply line
Device ==
    /\ outgoing # <<>>
    /\ outgoing' = Tail(outgoing)
    /\ incoming' = Append(incoming, [re |-> Head(outgoing).id,
                                     text |-> response(Head(outgoing).cmd)])
    /\ UNCHANGED <<gc, call, nSent, unanswered, reply, printer, templates, pure>>

SerialNext == Call \/ FlushInput \/ Send \/ Receive \/ Timeout \/ Device

SerialSpec == Init /\ [][SerialNext]_vars

\* ------------------------------------------- the template substitution
\* the reserved names a template may use as {name}
Names == {"z", "curing", "layer", "total_layers", "speed"}

\* HashMap::insert / remove / clear on Gcode::gcode_substitutions
insert(m, name, value) ==
    [x \in DOMAIN m \cup {name} |-> IF x = name THEN value ELSE m[x]]

add_print_variable_once(m, name, value) ==
    IF name \in DOMAIN m THEN m ELSE insert(m, name, value)

add_print_variable(m, name, value) == insert(m, name, value)

remove_print_variable(m, name) == [x \in DOMAIN m \ {name} |-> m[x]]

clear_variables(m) == EmptyMap

\* Gcode::set_position keeps z = z_microns / 1000.0: the millimetres and the
\* remaining microns of the decimal string
z_string(z_microns) == <<z_microns \div 1000, z_microns % 1000>>

\* Gcode::add_state_variables: curing and z of the mirror, as strings
add_state_variables(m, h) ==
    insert(insert(m, "curing", IF h.curing THEN "true" ELSE "false"),
           "z", z_string(h.z))

\* Gcode::parse_gcode on a template with the {name} tokens `tokens`, after
\* add_state_variables: every token is replaced, or the task panics
parse_gcode(m, tokens) == IF tokens \subseteq DOMAIN m THEN "sent" ELSE "panic"

\* Ok(self.state) and the error of a failed exchange
Ok(h) == Returned("PhysicalState", {h})

Err == Returned("Err", {})

\* send_gcode: the step's template, whatever tokens the configuration gave
\* it, is parsed against the map m and sent; a panic ends the task
\* one entry of the history of a layer
Step(step, layer, z, speed) ==
    [step |-> step, layer |-> layer, z |-> z, speed |-> speed]

SendTemplate(step, m, layer, z, speed, next, value) ==
    \E tokens \in SUBSET Names :
        /\ sent' = [step |-> step, tokens |-> tokens, map |-> m,
                    layer |-> layer, speed |-> speed,
                    result |-> parse_gcode(m, tokens), z |-> z,
                    returned |-> IF parse_gcode(m, tokens) = "sent"
                                 THEN value ELSE Returned("none", {})]
        /\ tpc' = IF parse_gcode(m, tokens) = "sent" THEN next ELSE "panicked"
        /\ steps' = IF parse_gcode(m, tokens) = "sent" /\ layer # None
                    THEN Append(steps, Step(step, layer, z, speed))
                    ELSE steps

\* print_event_loop: total_layers is added, wrapped_start_print
TStartPrint ==
    /\ tpc = "idle"
    /\ LET m == add_state_variables(
                    add_print_variable(gcode_substitutions, "total_layers",
                                       archive), hw) IN
       /\ SendTemplate("print_start", m, None, hw.z, None, "loop", Ok(hw))
       /\ gcode_substitutions' = m
    /\ tlayer' = 0
    /\ cureZ' = <<>>
    /\ UNCHANGED <<hw, machine, serial, pure>>

\* print_event_loop, Some(cur_frame): layer is added
TNextLayer ==
    /\ tpc = "loop"
    /\ tlayer < archive
    /\ gcode_substitutions' =
          add_print_variable(gcode_substitutions, "layer", tlayer)
    /\ tpc' = "start_layer"
    /\ sent' = NoTemplate
    /\ steps' = <<>>
    /\ UNCHANGED <<tlayer, cureZ, hw, machine, serial, pure>>

\* print_frame: wrapped_start_layer
TStartLayer ==
    /\ tpc = "start_layer"
    /\ LET m == add_state_variables(gcode_substitutions, hw) IN
       /\ SendTemplate("layer_start", m, tlayer, hw.z, None, "move_up",
                       Ok(hw))
       /\ gcode_substitutions' = m
    /\ UNCHANGED <<tlayer, cureZ, hw, machine, serial, pure>>

\* Gcode::move_z: set_position, speed * 60 is added, the move template is
\* parsed and sent, and speed is removed again when move_sync arrived
MoveZ(step, z, speed, layer, next) ==
    /\ hw' = set_position(hw, z)
    /\ LET m == add_state_variables(
                    add_print_variable(gcode_substitutions, "speed",
                                       60 * speed), hw') IN
       \E r \in {"sync", "timeout"} :
          /\ SendTemplate(step, m, layer, z, 60 * speed, next,
                          IF r = "sync" THEN Ok(hw') ELSE Err)
          /\ gcode_substitutions' =
                 IF r = "sync" THEN remove_print_variable(m, "speed") ELSE m

\* print_frame: the two wrapped_move calls
TMove ==
    /\ tpc \in {"move_up", "move_down"}
    /\ IF tpc = "move_up"
       THEN MoveZ("move", layer_z(tlayer) + Lift, UpSpeed, tlayer, "move_down")
       ELSE MoveZ("move", layer_z(tlayer), DownSpeed, tlayer, "display")
    /\ UNCHANGED <<tlayer, cureZ, machine, serial, pure>>

\* print_frame: display_frame(cur_frame)
TDisplay ==
    /\ tpc = "display"
    /\ tpc' = "start_cure"
    /\ sent' = NoTemplate
    /\ steps' = Append(steps, Step("display_frame", tlayer, hw.z, None))
    /\ UNCHANGED <<gcode_substitutions, tlayer, cureZ, hw, machine, serial,
                   pure>>

\* print_frame: wrapped_start_cure
TStartCure ==
    /\ tpc = "start_cure"
    /\ hw' = set_curing(hw, TRUE)
    /\ LET m == add_state_variables(gcode_substitutions, hw') IN
       /\ SendTemplate("cure_start", m, tlayer, hw.z, None, "stop_cure",
                       Ok(hw'))
       /\ gcode_substitutions' = m
    /\ cureZ' = IF sent'.result = "sent" THEN Append(cureZ, hw.z) ELSE cureZ
    /\ UNCHANGED <<tlayer, machine, serial, pure>>

\* print_frame: wrapped_stop_cure, then set_layer(layer + 1)
TStopCure ==
    /\ tpc = "stop_cure"
    /\ hw' = set_curing(hw, FALSE)
    /\ LET m == add_state_variables(gcode_substitutions, hw') IN
       /\ SendTemplate("cure_end", m, tlayer, hw.z, None, "loop", Ok(hw'))
       /\ gcode_substitutions' = m
    /\ tlayer' = tlayer + 1
    /\ UNCHANGED <<cureZ, machine, serial, pure>>

\* Printer::end_print: the print-end template, then clear_variables
TEndPrint ==
    /\ tpc = "loop"
    /\ tlayer >= archive
    /\ LET m == add_state_variables(gcode_substitutions, hw) IN
       /\ SendTemplate("print_end", m, None, hw.z, None, "idle", Ok(hw))
       /\ gcode_substitutions' = clear_variables(m)
    /\ UNCHANGED <<tlayer, cureZ, hw, machine, serial, pure>>

\* StopPrint or Shutdown between two layers: the loop is left, the map stays
TStop ==
    /\ tpc = "loop"
    /\ tpc' = "idle"
    /\ sent' = NoTemplate
    /\ UNCHANGED <<gcode_substitutions, tlayer, steps, cureZ, hw, machine,
                   serial, pure>>

\* idle_operation_handler, ManualMove: wrapped_move(z, default_up_speed)
TManualMove ==
    /\ tpc = "idle"
    /\ MoveZ("manual_move", ManualZ, UpSpeed, None, "idle")
    /\ UNCHANGED <<tlayer, cureZ, machine, serial, pure>>

\* idle_operation_handler, ManualCure
TManualCure ==
    /\ tpc = "idle"
    /\ \E cure \in BOOLEAN :
          /\ hw' = set_curing(hw, cure)
          /\ LET m == add_state_variables(gcode_substitutions, hw') IN
             /\ SendTemplate(IF cure THEN "cure_start" ELSE "cure_end", m,
                             None, hw'.z, None, "idle", Ok(hw'))
             /\ gcode_substitutions' = m
    /\ UNCHANGED <<tlayer, cureZ, machine, serial, pure>>

\* boot, home, manual_command, is_ready and shutdown send their templates
\* through the same parse_gcode; shutdown also leaves the print loop.
\* is_ready returns Ok(bool) and shutdown Ok(()), the others Ok(self.state)
TCommand ==
    /\ tpc \in {"idle", "loop"}
    /\ \E step \in IF tpc = "idle"
                    THEN {"boot", "home_command", "manual_command",
                          "status_check", "shutdown"}
                    ELSE {"shutdown"} :
          LET m == add_state_variables(gcode_substitutions, hw) IN
          /\ SendTemplate(step, m, None, hw.z, None, "idle",
                          CASE step = "status_check" -> Returned("bool", {})
                            [] step = "shutdown" -> Returned("unit", {})
                            [] OTHER -> Ok(hw))
          /\ gcode_substitutions' = m
    /\ UNCHANGED <<tlayer, cureZ, hw, machine, serial, pure>>

TemplateNext ==
    \/ TStartPrint \/ TNextLayer \/ TStartLayer \/ TMove \/ TDisplay
    \/ TStartCure
    \/ TStopCure \/ TEndPrint \/ TStop \/ TManualMove \/ TManualCure
    \/ TCommand

TemplateSpec == Init /\ [][TemplateNext]_vars

\* ------------------------------------------------- the display re-encoder
\* the sub-pixel widths, pads, source depth and pixel values of the frames
Widths == {3, 5, 6, 8}
Pads == {0, 8}
Depths == {8}
Bytes == {0, 165, 255}
Builds == {"debug", "release"}

\* an arithmetic overflow of a build with overflow checks
Panic == -1

\* u8 `x - y`: a debug build panics on overflow, a release build wraps
sub_u8(b, x, y) ==
    IF x = Panic \/ y = Panic THEN Panic
    ELSE IF x >= y THEN x - y
    ELSE IF b = "debug" THEN Panic ELSE x - y + 256

\* u8 `x + y`
add_u8(b, x, y) ==
    IF x = Panic \/ y = Panic THEN Panic
    ELSE IF x + y < 256 THEN x + y
    ELSE IF b = "debug" THEN Panic ELSE (x + y) % 256

\* the amount of a u64 `<<` or `>>`: 64 and more is an overflow
shift_u64(b, n) ==
    IF n = Panic THEN Panic
    ELSE IF n < 64 THEN n
    ELSE IF b = "debug" THEN Panic ELSE n % 64

\* bit_depth.iter().sum::<u8>()
RECURSIVE sum_u8(_, _)
sum_u8(b, W) ==
    IF W = <<>> THEN 0 ELSE add_u8(b, Head(W), sum_u8(b, Tail(W)))

\* chunk_size of re_encode
chunk_size(b, pf) ==
    add_u8(b, add_u8(b, pf.left_pad_bits, sum_u8(b, pf.bit_depth)),
           pf.right_pad_bits)

\* the bits of a byte, as the set of their positions
Bits(v) == {i \in 0..7 : (v \div 2^i) % 2 = 1}

\* (pixel as u64) >> n for n < 64
shr(v, n) == IF n >= 8 THEN 0 ELSE v \div 2^n

\* the bits of a u64 moved up by n < 64: what leaves the 64 bits is lost
shl(bits, n) == {i + n : i \in bits} \cap (0..63)

\* the loop over the pixels of re_encode_pixel_group, from pixel i on:
\* raw_chunk as the set of its one bits
RECURSIVE pack_pixels(_, _, _, _, _, _, _)
pack_pixels(b, pf, pixels, depth, i, raw, shift) ==
    IF i > Len(pixels) THEN [ok |-> TRUE, raw |-> raw]
    ELSE LET s == sub_u8(b, shift, pf.bit_depth[i])
             r == shift_u64(b, sub_u8(b, depth, pf.bit_depth[i]))
             l == shift_u64(b, s)
         IN IF Panic \in {s, r, l} THEN [ok |-> FALSE, raw |-> {}]
            ELSE pack_pixels(b, pf, pixels, depth, i + 1,
                             raw \cup shl(Bits(shr(pixels[i], r)), l), s)

\* ((raw_chunk >> n) & 0xFF) as u8
byte_at(raw, n) ==
    LET bit(p) == IF p \in raw THEN 1 ELSE 0 IN
    bit(n) + 2 * bit(n + 1) + 4 * bit(n + 2) + 8 * bit(n + 3)
      + 16 * bit(n + 4) + 32 * bit(n + 5) + 64 * bit(n + 6)
      + 128 * bit(n + 7)

\* PrintDisplay::re_encode_pixel_group
re_encode_pixel_group(b, pf, pixels, depth, chunk) ==
    LET packed == pack_pixels(b, pf, pixels, depth, 1, {},
                              sub_u8(b, chunk, pf.left_pad_bits))
        n == chunk \div 8
    IN IF chunk = Panic \/ ~packed.ok
          \/ \E i \in 0..(n - 1) : shift_u64(b, 8 * i) = Panic
       THEN [ok |-> FALSE, bytes |-> <<>>]
       ELSE [ok |-> TRUE,
             bytes |-> [i \in 1..n |->
                           byte_at(packed.raw, shift_u64(b, 8 * (i - 1)))]]

\* chunks_exact(k).flat_map(re_encode_pixel_group).collect(), from group g on
RECURSIVE flat_map(_, _, _, _, _, _)
flat_map(b, pf, buf, depth, chunk, g) ==
    LET k == Len(pf.bit_depth) IN
    IF g * k > Len(buf) THEN [ok |-> TRUE, bytes |-> <<>>]
    ELSE LET head == re_encode_pixel_group(
                         b, pf, SubSeq(buf, (g - 1) * k + 1, g * k), depth,
                         chunk)
             rest == flat_map(b, pf, buf, depth, chunk, g + 1)
         IN IF head.ok /\ rest.ok
            THEN [ok |-> TRUE, bytes |-> head.bytes \o rest.bytes]
            ELSE [ok |-> FALSE, bytes |-> <<>>]

\* the `if` of re_encode that returns the buffer as it is
fast_path(pf, depth) == Len(pf.bit_depth) = 1 /\ pf.bit_depth[1] = depth

\* PrintDisplay::re_encode
re_encode(b, pf, buf, depth) ==
    IF fast_path(pf, depth)
    THEN [src |-> buf, depth |-> depth, ok |-> TRUE, bytes |-> buf,
          path |-> "fast"]
    ELSE LET chunk == chunk_size(b, pf)
             out_ == IF chunk = Panic THEN [ok |-> FALSE, bytes |-> <<>>]
                     ELSE flat_map(b, pf, buf, depth, chunk, 1)
         IN [src |-> buf, depth |-> depth, ok |-> out_.ok,
             bytes |-> out_.bytes, path |-> "packed"]

\* the pixel formats a configuration may hold: any widths for up to MaxMixed
\* sub-pixels, equal widths for up to MaxGroup
PixelFormats ==
    {PixelFormat(W, l, r) :
        W \in UNION {[1..k -> Widths] : k \in 1..MaxMixed}
                 \cup {[i \in 1..k |-> w] : k \in 1..MaxGroup, w \in Widths},
        l \in Pads, r \in Pads}

\* the decoded frames: any pixels for up to MaxMixed of them, and longer
\* frames whose first pixel differs from the others
Buffers ==
    UNION {[1..n -> Bytes] : n \in 1..MaxMixed}
      \cup {[i \in 1..n |-> IF i = 1 THEN a ELSE c] :
               n \in 1..MaxBuffer, a \in Bytes, c \in Bytes}

\* PrintDisplay::new with a configured pixel format; a frame was decoded
InitEncoder ==
    /\ InitPrinter
    /\ archive = 0
    /\ InitSerial
    /\ InitTemplates
    /\ pixel_format \in PixelFormats
    /\ buffer \in Buffers
    /\ bit_depth \in Depths
    /\ build \in Builds
    /\ encoded = NoEncoded
    /\ InitFade
    /\ InitStatus
    /\ InitMore

\* PrintDisplay::display_frame -> display_bytes -> write_frame(re_encode(..))
DisplayFrame ==
    /\ encoded' = re_encode(build, pixel_format, buffer, bit_depth)
    /\ UNCHANGED <<pixel_format, buffer, bit_depth, build>>
    /\ UNCHANGED <<printer, serial, templates, fade, status, more>>

\* PrintDisplay::display_test(White): display_bytes(vec![0xFF; n], 8)
DisplayTestWhite ==
    /\ encoded' = re_encode(build, pixel_format,
                            [i \in 1..Len(buffer) |-> 255], 8)
    /\ UNCHANGED <<pixel_format, buffer, bit_depth, build>>
    /\ UNCHANGED <<printer, serial, templates, fade, status, more>>

\* the sum of the widths of a pixel format
RECURSIVE SumWidths(_)
SumWidths(W) == IF W = <<>> THEN 0 ELSE Head(W) + SumWidths(Tail(W))

\* the chunk size of the pixel format
ChunkSize ==
    pixel_format.left_pad_bits + SumWidths(pixel_format.bit_depth)
      + pixel_format.right_pad_bits

\* re_encode_pixel_group called on one group of k pixels with the chunk size
\* of the format, as the tests of display.rs call it
ReEncodePixelGroup ==
    /\ Len(buffer) = Len(pixel_format.bit_depth)
    /\ ChunkSize < 256
    /\ LET group == re_encode_pixel_group(build, pixel_format, buffer,
                                          bit_depth, ChunkSize) IN
       encoded' = [src |-> buffer, depth |-> bit_depth, ok |-> group.ok,
                   bytes |-> group.bytes, path |-> "group"]
    /\ UNCHANGED <<pixel_format, buffer, bit_depth, build>>
    /\ UNCHANGED <<printer, serial, templates, fade, status, more>>

EncoderNext == DisplayFrame \/ DisplayTestWhite \/ ReEncodePixelGroup

EncoderSpec == InitEncoder /\ [][EncoderNext]_vars

\* ------------------------------------------------ exposure time of a layer
fade_rate_rising(num_fade, index) == Rational(index, num_fade)

\* `(self.num_fade - index) as f64 / self.num_fade as f64`
fade_rate(num_fade, index) == Rational(num_fade - index, num_fade)

\* PrintConfig::exposure_time, in seconds, as an exact fraction
PrintConfig_exposure_time(config, index) ==
    IF index < config.num_fade
    THEN LET rate == fade_rate(config.num_fade, index) IN
         Rational(config.exp_time * rate.d
                    + (config.exp_time_first - config.exp_time) * rate.n,
                  rate.d)
    ELSE Rational(config.exp_time, 1)

\* the print configs of the archives
PrintConfigs ==
    [exp_time : 0..MaxExposure, exp_time_first : 0..MaxExposure,
     num_fade : 0..MaxFade]

\* Sl1::from_file read the config of an archive
InitExposure ==
    /\ InitPrinter
    /\ archive = 0
    /\ InitSerial
    /\ InitTemplates
    /\ InitDisplay
    /\ InitStatus
    /\ InitMore
    /\ print_config \in PrintConfigs
    /\ frame_index = 0
    /\ exposure = NoExposure

\* Sl1::get_layer_data(index): the frame gets exposure_time(index)
GetLayerData ==
    /\ \E index \in 0..MaxIndex :
          /\ frame_index' = index
          /\ exposure' = PrintConfig_exposure_time(print_config, index)
    /\ UNCHANGED print_config
    /\ UNCHANGED <<printer, serial, templates, display, status, more>>

ExposureNext == GetLayerData

ExposureSpec == InitExposure /\ [][ExposureNext]_vars

\* --------------------------------------------- the status channel's readers
\* the oldest snapshot the channel still retains
oldest_retained(n) == IF n > StatusDepth THEN n - StatusDepth + 1 ELSE 1

\* broadcast::Receiver::try_recv of a receiver whose cursor is c, after n
\* snapshots were sent: Empty, or Lagged with the cursor moved to the oldest
\* retained snapshot, or the snapshot at the cursor
try_recv(c, n) ==
    IF c > n THEN [result |-> "Empty", value |-> None, cursor |-> c]
    ELSE IF c < oldest_retained(n)
    THEN [result |-> "Lagged", value |-> None, cursor |-> oldest_retained(n)]
    ELSE [result |-> "Ok", value |-> c, cursor |-> c + 1]

\* Printer::send_status: status_channel.0.send(state)
SendStatus ==
    /\ published < MaxPublished
    /\ published' = published + 1
    /\ UNCHANGED <<cursor, lagged, received, state_ref>>
    /\ UNCHANGED <<printer, serial, templates, display, fade, more>>

\* the receive of subscriber r
Receive_(r) ==
    LET got == try_recv(cursor[r], published) IN
    /\ cursor' = [cursor EXCEPT ![r] = got.cursor]
    /\ lagged' = [lagged EXCEPT ![r] =
                      IF got.result = "Empty" THEN @
                      ELSE got.result = "Lagged"]
    /\ received' = [by |-> r, result |-> got.result, value |-> got.value,
                    afterLag |-> lagged[r] /\ got.result # "Empty",
                    latest |-> published]

\* run_state_listener, one turn of its loop: try_recv, the cache is written
\* when it returned Ok, then the interval is awaited
RunStateListener ==
    /\ Receive_("listener")
    /\ state_ref' = IF try_recv(cursor["listener"], published).result = "Ok"
                    THEN try_recv(cursor["listener"], published).value
                    ELSE state_ref
    /\ UNCHANGED published
    /\ UNCHANGED <<printer, serial, templates, display, fade, more>>

\* Api::_status_stream: the BroadcastStream yields the next item, Some for
\* a snapshot and None (result.ok()) for a lag; it waits while it is empty
StatusStream ==
    /\ cursor["stream"] <= published
    /\ Receive_("stream")
    /\ UNCHANGED <<published, state_ref>>
    /\ UNCHANGED <<printer, serial, templates, display, fade, more>>

StatusNext == SendStatus \/ RunStateListener \/ StatusStream

StatusSpec == Init /\ [][StatusNext]_vars

\* ---------------------------------------------------- timing of a layer
\* the components beside the timing of a layer
beside_timing == <<old, loops, lag, conf>>

\* `sleep(d);` without .await: the future is dropped, nothing is waited for
sleep_unawaited(elapsed, t) == TRUE

\* print_event_loop enters print_frame for the first layer
FBegin ==
    /\ fpc = "idle"
    /\ archive > 0
    /\ fpc' = "start_layer"
    /\ flayer' = 0
    /\ mark' = NoMark
    /\ UNCHANGED <<now, beside_timing>>

\* print_frame: wrapped_start_layer
FStartLayer ==
    /\ fpc = "start_layer"
    /\ fpc' = "move"
    /\ mark' = [mark EXCEPT !.layer_start = now, !.moved = None,
                             !.displayed = None, !.cure_start = None]
    /\ UNCHANGED <<flayer, now, beside_timing>>

\* print_frame: both wrapped_move calls have returned
FMove ==
    /\ fpc = "move"
    /\ fpc' = "wait_before"
    /\ mark' = [mark EXCEPT !.moved = now]
    /\ UNCHANGED <<flayer, now, beside_timing>>

\* print_frame: sleep(wait_before_exposure), display_frame
FDisplay ==
    /\ fpc = "wait_before"
    /\ sleep_unawaited(now - mark.moved, WaitBefore)
    /\ fpc' = "start_cure"
    /\ mark' = [mark EXCEPT !.displayed = now]
    /\ UNCHANGED <<flayer, now, beside_timing>>

\* print_frame: wrapped_start_cure
FStartCure ==
    /\ fpc = "start_cure"
    /\ fpc' = "expose"
    /\ mark' = [mark EXCEPT !.cure_start = now]
    /\ UNCHANGED <<flayer, now, beside_timing>>

\* print_frame: sleep(exposure_time).await, wrapped_stop_cure
FStopCure ==
    /\ fpc = "expose"
    /\ sleep_done(now - mark.cure_start, exposure_time(flayer))
    /\ fpc' = "wait_after"
    /\ mark' = [mark EXCEPT !.cure_end = now]
    /\ UNCHANGED <<flayer, now, beside_timing>>

\* print_frame: sleep(wait_after_exposure), return; set_layer(layer + 1)
FEndLayer ==
    /\ fpc = "wait_after"
    /\ sleep_unawaited(now - mark.cure_end, WaitAfter)
    /\ fpc' = IF flayer + 1 < archive THEN "start_layer" ELSE "idle"
    /\ flayer' = flayer + 1
    /\ UNCHANGED <<mark, now, beside_timing>>

\* time passes, whatever the task is doing
FTick ==
    /\ now < MaxNow
    /\ now' = now + 1
    /\ UNCHANGED <<fpc, flayer, mark, beside_timing>>

TimingNext ==
    \/ FBegin \/ FStartLayer \/ FMove \/ FDisplay \/ FStartCure
    \/ FStopCure \/ FEndLayer \/ FTick

TimingSpec == Init /\ [][TimingNext]_vars

\* ------------------------------------------------------ transport loops
\* the components beside the transport loops
beside_loops == <<old, timing, lag, conf>>

\* what a read_line of the port can return: a read timeout, a line, or
\* another I/O error
ReadOutcomes == {"TimedOut", "line", "error"}

\* what a write to the port can return
WriteOutcomes == {"ok", "Interrupted", "other"}

\* the process starts with one of the two transports
InitTransport ==
    /\ InitPrinter
    /\ archive = 0
    /\ InitOld
    /\ InitTiming
    /\ InitLag
    /\ InitConf([f \in Fields |-> 0])
    /\ \E t \in {"run", "split"} : InitLoops(t)

\* the protocol puts a message on the outgoing channel
XEnqueue ==
    /\ xenq < MaxMsgs
    /\ xenq' = xenq + 1
    /\ xq' = Append(xq, xenq + 1)
    /\ UNCHANGED <<transport, cancelled, xpc, xcur, written, faults, wstat>>
    /\ UNCHANGED beside_loops

\* the shutdown handler fires the cancellation token
XCancel ==
    /\ ~cancelled
    /\ cancelled' = TRUE
    /\ UNCHANGED <<transport, xpc, xq, xenq, xcur, written, faults, wstat>>
    /\ UNCHANGED beside_loops

\* loop l moves to position p
Goto(l, p) == xpc' = [xpc EXCEPT ![l] = p]

\* TTYPortHandler::run: interval.tick().await at the top of the loop
RunTick ==
    /\ xpc["run"] = "top"
    /\ Goto("run", "read")
    /\ UNCHANGED <<transport, cancelled, xq, xenq, xcur, written, faults,
                   wstat>>
    /\ UNCHANGED beside_loops

\* TTYPortHandler::run: read_line; a read timeout `continue`s to the top of
\* the loop, another error is returned, a line is published on the incoming
\* channel
RunRead ==
    /\ xpc["run"] = "read"
    /\ \E r \in ReadOutcomes :
          /\ Goto("run", CASE r = "TimedOut" -> "top"
                            [] r = "error" -> "failed"
                            [] OTHER -> "recv")
          /\ faults' = (faults \/ r = "error")
    /\ UNCHANGED <<transport, cancelled, xq, xenq, xcur, written, wstat>>
    /\ UNCHANGED beside_loops

\* TTYPortHandler::run: internal_comms.try_receive()
RunTryReceive ==
    /\ xpc["run"] = "recv"
    /\ IF xq = <<>>
       THEN /\ Goto("run", "check")
            /\ UNCHANGED <<xq, xcur>>
       ELSE /\ Goto("run", "send")
            /\ xcur' = [xcur EXCEPT !["run"] = Head(xq)]
            /\ xq' = Tail(xq)
    /\ UNCHANGED <<transport, cancelled, xenq, written, faults, wstat>>
    /\ UNCHANGED beside_loops

\* TTYPortHandler::_send_serial, one turn of its loop: Ok returns, an error
\* that is Interrupted `continue`s, any other error falls out of the `if`
\* and the loop turns again
RunSendSerial ==
    /\ xpc["run"] = "send"
    /\ \E w \in WriteOutcomes :
          /\ Goto("run", IF w = "ok" THEN "check" ELSE "send")
          /\ written' = IF w = "ok" THEN Append(written, xcur["run"])
                        ELSE written
          /\ xcur' = IF w = "ok" THEN [xcur EXCEPT !["run"] = None] ELSE xcur
          /\ faults' = (faults \/ w # "ok")
          /\ wstat' = [by |-> "run", outcome |-> w, again |-> w # "ok"]
    /\ UNCHANGED <<transport, cancelled, xq, xenq>>
    /\ UNCHANGED beside_loops

\* TTYPortHandler::run: the check of the token at the end of the loop body
RunCheck ==
    /\ xpc["run"] = "check"
    /\ Goto("run", IF cancelled THEN "done" ELSE "top")
    /\ UNCHANGED <<transport, cancelled, xq, xenq, xcur, written, faults,
                   wstat>>
    /\ UNCHANGED beside_loops

\* run_listener: the check of the token at the top of the loop
ListenerTop ==
    /\ xpc["listener"] = "top"
    /\ Goto("listener", IF cancelled THEN "done" ELSE "read")
    /\ UNCHANGED <<transport, cancelled, xq, xenq, xcur, written, faults,
                   wstat>>
    /\ UNCHANGED beside_loops

\* run_listener: interval.tick(), read_line; another error than a timeout
\* panics
ListenerRead ==
    /\ xpc["listener"] = "read"
    /\ \E r \in ReadOutcomes :
          /\ Goto("listener", IF r = "error" THEN "failed" ELSE "top")
          /\ faults' = (faults \/ r = "error")
    /\ UNCHANGED <<transport, cancelled, xq, xenq, xcur, written, wstat>>
    /\ UNCHANGED beside_loops

\* run_writer: the check of the token at the top of the loop
WriterTop ==
    /\ xpc["writer"] = "top"
    /\ Goto("writer", IF cancelled THEN "done" ELSE "recv")
    /\ UNCHANGED <<transport, cancelled, xq, xenq, xcur, written, faults,
                   wstat>>
    /\ UNCHANGED beside_loops

\* run_writer: interval.tick(), then receiver.recv().await returns with the
\* next message; it waits while the channel is empty
WriterRecv ==
    /\ xpc["writer"] = "recv"
    /\ xq # <<>>
    /\ Goto("writer", "send")
    /\ xcur' = [xcur EXCEPT !["writer"] = Head(xq)]
    /\ xq' = Tail(xq)
    /\ UNCHANGED <<transport, cancelled, xenq, written, faults, wstat>>
    /\ UNCHANGED beside_loops

\* run_writer: `while let Err(e) = send_serial(..)`: Interrupted continues,
\* any other error breaks
WriterSend ==
    /\ xpc["writer"] = "send"
    /\ \E w \in WriteOutcomes :
          /\ Goto("writer", IF w = "Interrupted" THEN "send" ELSE "top")
          /\ written' = IF w = "ok" THEN Append(written, xcur["writer"])
                        ELSE written
          /\ xcur' = IF w = "Interrupted" THEN xcur
                     ELSE [xcur EXCEPT !["writer"] = None]
          /\ faults' = (faults \/ w # "ok")
          /\ wstat' = [by |-> "writer", outcome |-> w,
                       again |-> w = "Interrupted"]
    /\ UNCHANGED <<transport, cancelled, xq, xenq>>
    /\ UNCHANGED beside_loops

RunStep == RunTick \/ RunRead \/ RunTryReceive \/ RunSendSerial \/ RunCheck

ListenerStep == ListenerTop \/ ListenerRead

WriterStep == WriterTop \/ WriterRecv \/ WriterSend

TransportNext ==
    XEnqueue \/ XCancel \/ RunStep \/ ListenerStep \/ WriterStep

TransportSpec == InitTransport /\ [][TransportNext]_vars

\* every loop is scheduled again and again
TransportFairSpec ==
    /\ TransportSpec
    /\ WF_vars(RunStep)
    /\ WF_vars(ListenerStep)
    /\ WF_vars(WriterStep)

\* ------------------------------------------- the incoming receiver's lag
\* the components beside the incoming receiver
beside_lag == <<old, timing, loops, conf>>

\* the receiver whose cursor is c is more than the retained depth behind
\* the n lines that were published
behind(c, n) == n - c + 1 > IncomingDepth

\* broadcast::Receiver::is_empty: false also for a receiver that lags
is_empty(c, n) == c > n

\* a mutant of recv: a lagging receiver is handed the oldest retained line
recv_skipping(c, n) ==
    IF c > n THEN [result |-> "Empty", line |-> None, cursor |-> c]
    ELSE IF behind(c, n)
    THEN [result |-> "Ok", line |-> n - IncomingDepth + 1,
          cursor |-> n - IncomingDepth + 2]
    ELSE [result |-> "Ok", line |-> c, cursor |-> c + 1]

\* broadcast::Receiver::recv and try_recv of a receiver whose cursor is c
\* after n lines: Empty (recv waits), or Lagged with the cursor moved to the
\* oldest retained line, or the line at the cursor
recv(c, n) ==
    IF c > n THEN [result |-> "Empty", line |-> None, cursor |-> c]
    ELSE IF behind(c, n)
    THEN [result |-> "Lagged", line |-> None,
          cursor |-> n - IncomingDepth + 1]
    ELSE [result |-> "Ok", line |-> c, cursor |-> c + 1]

\* From<RecvError> and From<TryRecvError> for OdysseyError: the error type
\* of a receive error
from_recv_error(result) ==
    IF result = "Ok" THEN "Ok" ELSE "HardwareError"

\* the transport publishes a line it read: internal_comms.send(read_string)
LPublish ==
    /\ lines < MaxLines
    /\ lines' = lines + 1
    /\ UNCHANGED <<icursor, ipc, lgot>>
    /\ UNCHANGED beside_lag

\* send_and_check or send_and_await is called: flush_input begins
LCall ==
    /\ ipc = "idle"
    /\ ipc' = "flush"
    /\ UNCHANGED <<lines, icursor, lgot>>
    /\ UNCHANGED beside_lag

\* flush_input, one turn of its loop: the receiver is not empty and
\* recv().await? takes a line or returns the error, which ends the call
LFlush ==
    /\ ipc = "flush"
    /\ ~is_empty(icursor, lines)
    /\ LET got == recv(icursor, lines) IN
          /\ icursor' = got.cursor
          /\ ipc' = IF got.result = "Ok" THEN "flush" ELSE "idle"
          /\ lgot' = [prim |-> "flush_input",
                      behind |-> behind(icursor, lines),
                      result |-> from_recv_error(got.result),
                      line |-> got.line,
                      call |-> IF got.result = "Ok" THEN "pending"
                               ELSE from_recv_error(got.result)]
    /\ UNCHANGED lines
    /\ UNCHANGED beside_lag

\* flush_input returns Ok when the receiver is empty; the command is sent
LSend ==
    /\ ipc = "flush"
    /\ is_empty(icursor, lines)
    /\ ipc' = "wait"
    /\ UNCHANGED <<lines, icursor, lgot>>
    /\ UNCHANGED beside_lag

\* check_response: receive() returns the next line or the error; the call
\* ends, except that send_and_await receives again when the line is not
\* the expected one
LReceive ==
    /\ ipc = "wait"
    /\ ~is_empty(icursor, lines)
    /\ LET got == recv(icursor, lines) IN
          \E again \in BOOLEAN :
             /\ again => got.result = "Ok"
             /\ icursor' = got.cursor
             /\ ipc' = IF again THEN "wait" ELSE "idle"
             /\ lgot' = [prim |-> "receive",
                         behind |-> behind(icursor, lines),
                         result |-> from_recv_error(got.result),
                         line |-> got.line,
                         call |-> IF again THEN "pending"
                                  ELSE from_recv_error(got.result)]
    /\ UNCHANGED lines
    /\ UNCHANGED beside_lag

\* try_receive outside a call: None when the receiver is empty
LTryReceive ==
    /\ ipc = "idle"
    /\ LET got == recv(icursor, lines) IN
          /\ icursor' = got.cursor
          /\ lgot' = [prim |-> "try_receive",
                      behind |-> behind(icursor, lines),
                      result |-> IF got.result = "Empty" THEN "None"
                                 ELSE from_recv_error(got.result),
                      line |-> got.line,
                      call |-> "none"]
    /\ UNCHANGED <<lines, ipc>>
    /\ UNCHANGED beside_lag

LagNext == LPublish \/ LCall \/ LFlush \/ LSend \/ LReceive \/ LTryReceive

LagSpec == Init /\ [][LagNext]_vars

\* ------------------------------------------------ configuration patches
\* the components beside the configuration
beside_conf == <<old, timing, loops, lag>>

\* UpdateConfiguration: a value for some of the fields
Patches == UNION {[D -> Values] : D \in SUBSET Fields}

\* Applicable::build: base with the fields of the patch replaced
build_config(patch, base) ==
    [f \in Fields |-> IF f \in DOMAIN patch THEN patch[f] ELSE base[f]]

\* the process starts with the configuration its file contains
InitConfig ==
    /\ InitPrinter
    /\ archive = 0
    /\ InitOld
    /\ InitMore

\* ConfigApi::patch_config and Api::patch_config: the patch is built on a
\* clone of the Arc the API was started with, and overwrite_file writes the
\* result to the configuration file; the Arc is not replaced
PatchConfig ==
    /\ Len(patches) < MaxPatches
    /\ \E patch_config \in Patches :
          LET ammend_config == build_config(patch_config, full_config) IN
          /\ config_file' = ammend_config
          /\ patches' = Append(patches, patch_config)
    /\ UNCHANGED full_config
    /\ UNCHANGED beside_conf

ConfigNext == PatchConfig

ConfigSpec == InitConfig /\ [][ConfigNext]_vars

\* ------------------------------------------------------------ properties
Printing == state.tag = "Printing"
Paused == state.tag = "Printing" /\ state.paused
LayerSteps == {"pf_start_layer", "pf_move1", "pf_move2", "pf_display",
               "pf_start_cure", "pf_expose", "pf_stop_cure"}
MotionCommands == {"layer_start", "move", "cure_start"}

\* the cure-starts of the print so far are those of layers 0, 1, 2, ... in
\* this order, each with the frame of its own layer on the display
CuredInOrder ==
    /\ Len(cured) <= archive
    /\ \A k \in 1..Len(cured) : cured[k] = [layer |-> k - 1, frame |-> k - 1]

\* the print-end template has just been sent after every layer was cured once
PrintCompleted ==
    /\ out = "print_end"
    /\ state.tag = "Idle"
    /\ Len(cured) = archive

\* C1: in a print session on a controller that answers every move with
\* move_sync, under any interleaving of PausePrint, ResumePrint and QueryState,
\* the cure-start command is issued once per layer 0..N-1, in increasing order
\* and with that layer's frame on the display; the print-end template is sent
\* only after all N layers; and if every pause is eventually resumed the print
\* ends with the print-end template sent and the state Idle.
C1_EveryLayerCuredOnce ==
    /\ [](CuredInOrder /\ (out = "print_end" => PrintCompleted))
    /\ ((Paused ~> ~Paused) => (Printing ~> PrintCompleted))

C1_Witness ==
    /\ PrintCompleted
    /\ archive >= 2
    /\ budget = 0

\* C2: within one print, the layer_index of successive published Printing
\* snapshots never decreases.
C2_LayerIndexMonotone ==
    [][(pubInPrint # None /\ pubInPrint' # None) => pubInPrint' >= pubInPrint]_vars

C2_Witness ==
    /\ lastPub.tag = "Printing"
    /\ lastPub.layer >= 1
    /\ lastOp = "ResumePrint"

\* C3 (as claimed): every published Printing snapshot has
\* layer_index < layer_count.
C3_LayerBelowCount ==
    lastPub.tag = "Printing" => lastPub.layer < lastPub.count

\* C4: in a print, the cure-end command is issued only when at least the
\* layer's exposure time has elapsed since its cure-start was issued.
C4_ExposureHonoured ==
    (pc = "pf_next" /\ out = "cure_end") => clock >= exposure_time(cur_layer)

C4_Witness ==
    /\ pc = "pf_next"
    /\ out = "cure_end"
    /\ clock = ExpTimeFirst
    /\ queue # <<>>
    /\ Head(queue).op \in {"PausePrint", "StopPrint", "Shutdown"}

\* C5 (as claimed): in a print, cure-start is issued only after both moves of
\* the layer were answered with move_sync.
C5_CureOnlyAfterSync ==
    (pc = "pf_expose" /\ out = "cure_start") => (mv1 = "sync" /\ mv2 = "sync")

\* C6 (as claimed): when a drain of the operation queue that dequeued a
\* Shutdown operation ends, the state is Shutdown.
C6_ShutdownDominates ==
    (pc \in {"idle_check", "print_check"} /\ drainShutdown)
        => state.tag = "Shutdown"

\* C7 (as claimed): once a motion-protocol call has failed with a hardware
\* error, the state eventually becomes Shutdown.
C7_HardwareErrorLeadsToShutdown ==
    (sdCause = "hw") ~> (state.tag = "Shutdown")

\* C8 (as claimed): for hardware errors the shutdown template is sent at most
\* once before the next boot.
C8_ShutdownTemplateOnce == hwSdCount <= 1

\* C9: a PausePrint handled in Printing sets paused and nothing else, so a
\* PausePrint on a paused print changes nothing; a ResumePrint clears paused
\* and nothing else; and a layer sequence starts at the current layer_index,
\* with that layer's frame.
C9_PauseIdempotent ==
    /\ (lastOp = "PausePrint" /\ pc = "print_ops" /\ before.tag = "Printing")
          => state = [before EXCEPT !.paused = TRUE]
    /\ (lastOp = "PausePrint" /\ before.tag = "Printing" /\ before.paused)
          => state = before
    /\ (lastOp = "ResumePrint" /\ before.tag = "Printing")
          => state = [before EXCEPT !.paused = FALSE]
    /\ (pc = "pf_start_layer")
          => (state.tag = "Printing" /\ ~state.paused
              /\ cur_layer = state.layer /\ optional_frame = cur_layer)

C9_Witness ==
    /\ lastOp = "PausePrint"
    /\ before.tag = "Printing"
    /\ before.paused
    /\ before.layer >= 1

\* C10: no step of a layer sequence dequeues an operation or changes paused,
\* so the sequence runs through cure-end whatever is enqueued; and while the
\* print is paused no layer-start, move or cure-start is issued and no frame
\* is written.
C10_PauseBetweenLayers ==
    [][/\ (pc \in LayerSteps /\ Printing) =>
            (~state.paused /\ Len(queue') >= Len(queue)
             /\ (Printing' => ~state'.paused))
       /\ Paused' => (out' \notin MotionCommands /\ displayed' = None)]_vars

C10_Witness ==
    /\ pc = "pf_next"
    /\ out = "cure_end"
    /\ Printing
    /\ queue # <<>>
    /\ Head(queue).op = "PausePrint"
    /\ cur_layer >= 1

\* a snapshot of a paused print, published while the PausePrint that was sent
\* during a layer sequence is pending or in force
PausedSnapshot ==
    /\ lastPub.tag = "Printing"
    /\ lastPub.paused
    /\ pausedAt # None

C12_DrainedInOrder ==
    [][/\ (queue' # queue) =>
            \/ (Len(queue') = Len(queue) + 1
                /\ SubSeq(queue', 1, Len(queue)) = queue)
            \/ (queue # <<>> /\ queue' = Tail(queue)
                /\ lastOp' = Head(queue).op /\ before' = state)
       /\ (pc = "print_ops" /\ pc' = "print_check") => queue = <<>>
       /\ pausePending' =>
            (out' \notin MotionCommands /\ pc' \notin LayerSteps)]_vars

C12_Witness ==
    /\ pc = "print_check"
    /\ pausePending
    /\ Paused
    /\ state.layer >= 1
    /\ lastOp = "none"
    /\ queue # <<>>
    /\ Head(queue).op = "ResumePrint"

C14_StartPrintIgnored ==
    [][(/\ Printing
        /\ queue # <<>>
        /\ Head(queue).op = "StartPrint"
        /\ queue' = Tail(queue))
          => (/\ state' = state
              /\ lastPub' = NoSnapshot
              /\ out' = "none"
              /\ UNCHANGED <<pc, hw, locals, cured>>)]_vars

C14_Witness ==
    /\ pc = "print_ops"
    /\ lastOp = "StartPrint"
    /\ before.tag = "Printing"
    /\ before.layer >= 1
    /\ before.paused
    /\ state = before

\* C15 (as claimed): an operation is handled according to the state at the
\* moment it is dequeued: StartPrint dequeued in Idle starts a print, and
\* PausePrint, ResumePrint and StopPrint dequeued in Printing take effect.
C15_HandledByCurrentState ==
    /\ (lastOp = "StartPrint" /\ before.tag = "Idle")
          => state.tag = "Printing"
    /\ (lastOp = "PausePrint" /\ before.tag = "Printing")
          => (state.tag = "Printing" /\ state.paused)
    /\ (lastOp = "ResumePrint" /\ before.tag = "Printing")
          => (state.tag = "Printing" /\ ~state.paused)
    /\ (lastOp = "StopPrint" /\ before.tag = "Printing")
          => state.tag = "Idle"

ShutdownLoop == {"sh_ops", "sh_check", "sh_wait", "sh_boot"}

\* C17: in the shutdown loop the state is Shutdown until boot; when is_ready
\* answers true the next step of the state machine sends the boot template
\* and makes the state Idle with the physical state boot returns (the mirror
\* of the motion protocol), and publishes it; when is_ready answers false the
\* state stays Shutdown and the loop polls again; and the boot template is
\* sent by no other step.
C17_BootWhenReady ==
    [][/\ (pc \in {"sh_wait", "sh_boot"})
             => state.tag = "Shutdown"
       /\ (pc = "sh_boot" /\ pc' # pc)
             => (/\ out' = "boot"
                 /\ state' = IdleState(hw)
                 /\ hw' = hw
                 /\ lastPub' = state')
       /\ (pc = "sh_wait" /\ pc' # pc /\ pc' # "sh_boot")
             => (state' = ShutdownState /\ out' = "none" /\ pc' = "sh_ops")
       /\ (pc \in ShutdownLoop /\ pc # "sh_boot") => state' = state
       /\ (out' = "boot" /\ out # "boot") => pc = "sh_boot"]_vars

C17_Witness ==
    /\ pc = "sh_ops"
    /\ out = "boot"
    /\ state = IdleState(hw)
    /\ lastPub = state
    /\ hw.z > 0

\* the exposure phase of the current layer: cure-start was sent for it and
\* cure-end was not yet
Exposing ==
    /\ state.tag = "Printing"
    /\ pc \in {"pf_expose", "pf_stop_cure"}
    /\ state.layer = cur_layer

C19_EveryChangePublished ==
    [][/\ unpublished => state' = state
       /\ lastPub' # NoSnapshot => lastPub' = state']_vars

\* Printer::start_statemachine has returned; its loop has no exit, so no
\* step leads here
Terminated == pc = "terminated"

\* C20 (as claimed): a Shutdown operation that is dequeued, in any state,
\* makes the state machine enter Printer::shutdown to attempt the shutdown
\* template, and after it the state machine loop terminates for good.
C20_ShutdownTerminates ==
    /\ [](lastOp = "Shutdown" => pc = "sd_ready")
    /\ ((lastOp = "Shutdown") ~> []Terminated)

\* C21 (as claimed): at most one command of the motion protocol is awaiting
\* its reply: when a command goes on the outgoing channel, the reply to
\* every earlier command has been received.
C21_OneInFlight == Cardinality(unanswered) <= 1

\* C22 (as claimed): the line that send_and_check or send_and_await takes as
\* the reply to the command it sent was emitted by the device in response to
\* that command.
C22_ReplyIsOwn == (reply # NoReply /\ reply.by # 0) => reply.by = reply.for

\* the template of the last call belongs to a print
SentInPrint == sent.step \in {"print_start", "print_end"} \/ sent.layer # None

\* the reserved variables of the step of the last call
StepVariables ==
    {"z", "curing"}
      \cup (IF SentInPrint THEN {"total_layers"} ELSE {})
      \cup (IF sent.layer # None THEN {"layer"} ELSE {})
      \cup (IF sent.speed # None THEN {"speed"} ELSE {})

\* C23: whenever a template is substituted, z and curing are defined; in a
\* print, from print-start to print-end, total_layers is the layer count of
\* the archive; at the layer-start, the moves, cure-start and cure-end of a
\* layer, layer is the index of that layer; at every move speed is 60 times
\* the speed of that move; and a template that uses only the variables of
\* its step is substituted and sent.
C23_StepVariablesDefined ==
    (sent.step # "none") =>
        /\ {"z", "curing"} \subseteq DOMAIN sent.map
        /\ SentInPrint => (/\ "total_layers" \in DOMAIN sent.map
                           /\ sent.map["total_layers"] = archive)
        /\ (sent.layer # None) => (/\ "layer" \in DOMAIN sent.map
                                   /\ sent.map["layer"] = sent.layer)
        /\ (sent.speed # None) => (/\ "speed" \in DOMAIN sent.map
                                   /\ sent.map["speed"] = sent.speed)
        /\ (sent.tokens \subseteq StepVariables) => sent.result = "sent"

C23_Witness ==
    /\ sent.step = "move"
    /\ sent.layer = 1
    /\ sent.tokens = Names
    /\ sent.result = "sent"
    /\ tpc = "display"

\* C24 (as claimed): substituting a template with a {name} token whose name
\* is not in the variable map returns a ConfigurationError to the caller,
\* which goes on, and nothing is sent.
C24_UnknownTokenIsError ==
    (sent.step # "none" /\ ~(sent.tokens \subseteq DOMAIN sent.map))
        => (sent.result = "ConfigurationError" /\ tpc # "panicked")

\* the source buffer of the last re-encoding was all ones
AllOnes(bytes) == \A i \in 1..Len(bytes) : bytes[i] = 255

\* C25 (as claimed): for a pixel format with zero padding whose widths sum
\* to source_depth * k, whatever the group size k and the width of the chunk,
\* re-encoding a buffer of 0xFF bytes yields a buffer of the same length
\* whose bytes are all 0xFF.
C25_AllOnesRoundTrip ==
    (/\ encoded.path \in {"fast", "packed"}
     /\ encoded.src # <<>>
     /\ AllOnes(encoded.src)
     /\ pixel_format.left_pad_bits = 0
     /\ pixel_format.right_pad_bits = 0
     /\ SumWidths(pixel_format.bit_depth)
           = encoded.depth * Len(pixel_format.bit_depth))
        => (/\ encoded.ok
            /\ Len(encoded.bytes) = Len(encoded.src)
            /\ AllOnes(encoded.bytes))

\* the reference packing of one group: pixel i, truncated to its w_i
\* high-order bits, at bit offset chunk_size - left_pad - (w_0 + ... + w_i)
ReferenceBits ==
    LET W == pixel_format.bit_depth IN
    UNION {{j + (ChunkSize - pixel_format.left_pad_bits
                   - SumWidths(SubSeq(W, 1, i))) :
               j \in Bits(encoded.src[i] \div 2^(encoded.depth - W[i]))} :
           i \in 1..Len(W)}

\* ... emitted as chunk_size / 8 bytes, least-significant byte first
ReferencePacking ==
    [n \in 1..(ChunkSize \div 8) |-> byte_at(ReferenceBits, 8 * (n - 1))]

\* C26 (as claimed): for every group of k pixels and every pixel format
\* whose chunk size is a positive multiple of 8, re_encode_pixel_group
\* returns the reference packing.
C26_EqualsReferencePacking ==
    (encoded.path = "group" /\ ChunkSize > 0 /\ ChunkSize % 8 = 0)
        => (encoded.ok /\ encoded.bytes = ReferencePacking)

\* C27 (as claimed): re_encode passes its input through exactly when k = 1,
\* W = [source_depth] and both pads are zero; with k = 1, W = [source_depth]
\* and a non-zero pad it re-packs every pixel into
\* (left_pad + source_depth + right_pad) / 8 bytes.
C27_FastPathOnlyUnpadded ==
    (encoded.path \in {"fast", "packed"}) =>
        /\ (encoded.path = "fast") <=>
              (/\ pixel_format.bit_depth = <<encoded.depth>>
               /\ pixel_format.left_pad_bits = 0
               /\ pixel_format.right_pad_bits = 0)
        /\ (/\ pixel_format.bit_depth = <<encoded.depth>>
            /\ pixel_format.left_pad_bits + pixel_format.right_pad_bits > 0)
              => (/\ encoded.ok
                  /\ Len(encoded.bytes)
                        = Len(encoded.src) * (ChunkSize \div 8))

\* what print_frame has to issue for layer i, in order
LayerSequence(i) ==
    << Step("layer_start", i, i * LayerHeight, None),
       Step("move", i, (i + 1) * LayerHeight + Lift, 60 * UpSpeed),
       Step("move", i, (i + 1) * LayerHeight, 60 * DownSpeed),
       Step("display_frame", i, (i + 1) * LayerHeight, None),
       Step("cure_start", i, (i + 1) * LayerHeight, None),
       Step("cure_end", i, (i + 1) * LayerHeight, None) >>

\* C30: for each layer i the engine issues, in this order, the layer-start
\* template, a move to (i+1)*h + l at up-speed, a move to (i+1)*h at
\* down-speed, the frame write, cure-start and cure-end; the Z position at
\* every cure-start is (i+1)*h and strictly increases from layer to layer.
C30_LayerSequenceInOrder ==
    /\ steps # <<>> =>
          LET i == steps[1].layer IN
          /\ Len(steps) <= 6
          /\ \A n \in 2..Len(steps) :
                steps[n] = LayerSequence(i)[n]
          /\ steps[1].step = "layer_start" /\ steps[1].speed = None
          /\ (tpc = "loop" /\ sent.step = "cure_end") => Len(steps) = 6
    /\ \A n \in 1..Len(cureZ) :
          /\ cureZ[n] = n * LayerHeight
          /\ n > 1 => cureZ[n] > cureZ[n - 1]

C30_Witness ==
    /\ tpc = "loop"
    /\ sent.step = "cure_end"
    /\ steps = LayerSequence(1)
    /\ Len(cureZ) = 2

\* the example of the fade: 10 s for the first layer, 2 s after 4 layers
ExampleConfig == [exp_time |-> 2, exp_time_first |-> 10, num_fade |-> 4]

\* C28: exposure_time(i) = exp_time + (exp_time_first - exp_time) *
\* (num_fade - i) / num_fade when i < num_fade and exp_time otherwise; so
\* exposure_time(0) = exp_time_first when num_fade > 0, exposure_time(num_fade)
\* = exp_time, and the example config gives 10, 8, 6, 4, 2 for i = 0..4.
C28_FadeFormula ==
    (exposure # NoExposure) =>
        LET c == print_config
            i == frame_index
        IN /\ exposure.d > 0
           /\ (i < c.num_fade) =>
                 exposure.n * c.num_fade =
                     (c.exp_time * c.num_fade
                        + (c.exp_time_first - c.exp_time) * (c.num_fade - i))
                       * exposure.d
           /\ (i >= c.num_fade) => exposure.n = c.exp_time * exposure.d
           /\ (i = 0 /\ c.num_fade > 0) =>
                 exposure.n = c.exp_time_first * exposure.d
           /\ (i = c.num_fade) => exposure.n = c.exp_time * exposure.d
           /\ (c = ExampleConfig /\ i <= 4) =>
                 exposure.n = (10 - 2 * i) * exposure.d

C28_Witness ==
    /\ print_config = ExampleConfig
    /\ frame_index = 2
    /\ exposure # NoExposure
    /\ exposure.n = 6 * exposure.d

\* C29 (as claimed): a subscriber that has fallen behind by more than the
\* depth of the channel loses the snapshots in between, and the snapshot it
\* receives next is the most recently published one.
C29_LaggedSeesLatest ==
    received.afterLag =>
        (received.result = "Ok" /\ received.value = received.latest)

\* C31 (as claimed): in each layer the frame is written and cure-start is
\* issued no sooner than wait_before_exposure after the move down completed,
\* and the next layer-start is sent no sooner than wait_after_exposure after
\* cure-end.
C31_WaitsAroundExposure ==
    /\ (mark.displayed # None) => mark.displayed - mark.moved >= WaitBefore
    /\ (mark.cure_start # None) => mark.cure_start - mark.moved >= WaitBefore
    /\ (mark.layer_start # None /\ mark.cure_end # None
          /\ mark.cure_end <= mark.layer_start /\ flayer > 0)
         => mark.layer_start - mark.cure_end >= WaitAfter

\* every loop of the transport has returned
LoopsExited == \A l \in Loops : xpc[l] \in {"off", "done", "failed"}

\* C32 (as claimed): once the cancellation token has fired, every transport
\* loop terminates (unless the port returns an error), also when every read
\* times out and no message is pending.
C32_CancelLeadsToExit == cancelled ~> (LoopsExited \/ faults)

\* C33 (as claimed): every message enqueued on the outgoing channel is
\* eventually written to the device (unless the transport is cancelled or
\* the port returns an error), and the messages are written once each, in
\* the order they were enqueued.
C33_EnqueuedIsWritten ==
    /\ [](\A i, j \in 1..Len(written) : i < j => written[i] < written[j])
    /\ \A m \in 1..MaxMsgs :
          (xenq >= m) ~> \/ \E i \in 1..Len(written) : written[i] = m
                         \/ cancelled
                         \/ faults

\* C34 (as claimed): a write that fails with Interrupted is retried, a write
\* that fails with any other error is not retried.
C34_RetryOnlyInterrupted ==
    /\ (wstat.outcome = "Interrupted") => wstat.again
    /\ (wstat.outcome = "other") => ~wstat.again

\* C35: a receive of the protocol's incoming receiver (in flush_input, in
\* receive, in try_receive) that finds the receiver more than the channel
\* depth behind returns a HardwareError and no line, and the
\* send_and_check or send_and_await it belongs to fails with that error.
C35_LagIsHardwareError ==
    lgot.behind =>
        /\ lgot.result = "HardwareError"
        /\ lgot.line = None
        /\ lgot.prim \in {"flush_input", "receive"}
              => lgot.call = "HardwareError"

\* the flush before a command found the receiver behind
C35_Witness == lgot.behind /\ lgot.prim = "flush_input"

\* the operations of the motion protocol that write the mirror
MoveSteps == {"move", "manual_move"}

CureSteps == {"cure_start", "cure_end"}

\* one operation of the motion protocol: a move to z sets the mirror's z to
\* z (and the z in millimetres that the template sees to z / 1000), a cure
\* command sets curing, any other operation leaves the mirror as it was
MirrorStep ==
    /\ (sent'.step \in MoveSteps) =>
          /\ hw' = [hw EXCEPT !.z = sent'.z]
          /\ sent'.map["z"] = z_string(sent'.z)
    /\ (sent'.step = "cure_start") => hw' = [hw EXCEPT !.curing = TRUE]
    /\ (sent'.step = "cure_end") => hw' = [hw EXCEPT !.curing = FALSE]
    /\ (sent'.step \notin MoveSteps \cup CureSteps) => hw' = hw

\* the last operation succeeded
Succeeded == sent.result = "sent" /\ sent.returned.kind # "Err"

ShutdownCommands == {"status_check", "boot", "shutdown"}

\* C37 (as claimed): a step of the state-machine task that begins in the
\* Shutdown state sends no command to the motion controller other than the
\* status check, boot and shutdown.
C37_NoMotionInShutdown ==
    [][(TaskNext /\ state.tag = "Shutdown" /\ out' # "none")
          => out' \in ShutdownCommands]_vars

\* C38 (as claimed): the state leaves Shutdown only in the step of the
\* shutdown loop that sends the boot template after is_ready answered true,
\* and it is then Idle with the physical state that boot returned.
C38_OnlyBootLeavesShutdown ==
    [][(state.tag = "Shutdown" /\ state'.tag # "Shutdown")
          => /\ pc = "sh_boot"
             /\ out' = "boot"
             /\ state' = update_idle_state(hw')]_vars

\* C39 (as claimed): when print_frame issues one of its two moves, the
\* mirrored curing flag is false.
C39_NoMoveWhileCuring ==
    [][(pc \in {"pf_move1", "pf_move2"} /\ pc' # pc /\ out' = "move")
          => ~hw.curing]_vars

\* the patches ps applied one after the other to the configuration c
RECURSIVE Applied(_, _)
Applied(ps, c) ==
    IF ps = <<>> THEN c ELSE Applied(Tail(ps), build_config(Head(ps), c))

\* C40 (as claimed): after two patches that change different fields, the
\* configuration file holds the start-up configuration with both patches
\* applied, the second to the result of the first.
C40_PatchesAccumulate ==
    (/\ Len(patches) = 2
     /\ DOMAIN patches[1] # {}
     /\ DOMAIN patches[2] # {}
     /\ DOMAIN patches[1] \cap DOMAIN patches[2] = {})
        => config_file = Applied(patches, full_config)
====
